---- MODULE Spec2Model ----
(***************************************************************************)
(* Search-and-discovery pipeline of SuplementIA.                           *)
(*                                                                         *)
(*  - the LanceDB search handler (search-api-lancedb/lambda_function.py):  *)
(*    cache lookup, query expansion, vector search, synchronous discovery, *)
(*    discovery-queue insert;                                              *)
(*  - the LanceDB discovery worker (discovery-worker-lancedb);             *)
(*  - the RDS discovery worker (discovery-worker) and the queue insert of  *)
(*    the multi-tier search handler (search-api).                          *)
(*                                                                         *)
(* Similarities are integers in thousandths (0.85 is 850).  Texts are      *)
(* sequences of one-character strings.  A SHA-256 digest is a record       *)
(* wrapping the digested text (collision-free).                            *)
(***************************************************************************)
EXTENDS Integers, Sequences, FiniteSets, TLC

VARIABLES
    env,        \* the environment of a run: the deployed pipeline, which collaborators may fail, which counts the oracle returns
    cache,      \* DynamoDB table supplement-cache: key -> entry | NoEntry
    catalog,    \* LanceDB table "supplements": sequence of records
    pubmedCache,\* DynamoDB table pubmed-cache: lowercased term -> [count, ttl] | NoEntry
    lqueue,     \* DynamoDB table discovery-queue (LanceDB pipeline): key -> item | NoEntry
    lstream,    \* its change stream: records not yet handed to the worker
    lw,         \* the LanceDB worker: idle, or between its "processing" write and its terminal write
    last,       \* what the search handler did for the latest request and its response, while no worker has run since
    rqueue,     \* DynamoDB discovery queue of the RDS pipeline: id -> item | NoEntry
    rstream,    \* its change stream
    rcatalog,   \* RDS table supplements
    vs,         \* one run of vector_search's loop over given per-term result lists
    now,        \* the clock, in seconds (time.time() truncated)
    redis,      \* ElastiCache Redis of the multi-tier search handler: key -> entry | NoEntry
    normalization_cache, \* the search handler's in-memory table of normalizations: lowercased query -> term | NoEntry
    sync,       \* the calls of try_sync_discovery under way, one per concurrent invocation of the search handler
    inflight,   \* the invocations of the search handler under way, between their cache read and their cache write
    retry,      \* one call of a function wrapped by retry_with_backoff: its loop counter, attempts, waits and outcome
    rw          \* the RDS worker: idle, or between the commit of its INSERT and its write of the queue item

lanceVars == <<cache, catalog, pubmedCache, lqueue, lstream, lw, last>>
rdsVars == <<rqueue, rstream, rcatalog, rw>>
tierVars == <<now, redis>>
vars == <<env, cache, catalog, pubmedCache, lqueue, lstream, lw, last,
        rqueue, rstream, rcatalog, vs, now, redis, normalization_cache, sync, inflight, retry,
        rw>>

NoEntry == [none |-> TRUE]

(***************************************************************************)
(* Texts                                                                   *)
(***************************************************************************)
LowerChar(c) == CASE c = "N" -> "n" [] c = "Z" -> "z" [] c = "A" -> "a" [] OTHER -> c

\* str.lower()
Lower(s) == [i \in 1..Len(s) |-> LowerChar(s[i])]

RECURSIVE LStrip(_)
LStrip(s) == IF s # <<>> /\ Head(s) = " " THEN LStrip(Tail(s)) ELSE s

RECURSIVE RStrip(_)
RStrip(s) == IF s # <<>> /\ s[Len(s)] = " " THEN RStrip(SubSeq(s, 1, Len(s) - 1)) ELSE s

\* str.strip()
Strip(s) == RStrip(LStrip(s))

\* hashlib.sha256(text.encode()).hexdigest()[:16]
Sha16(s) == [sha |-> s]

(***************************************************************************)
(* Vector search: the loop of vector_search over the expanded terms        *)
(***************************************************************************)
SIMILARITY_THRESHOLD == 850
ExcellentMatch == 950

\* A result of the index: a catalog id and 1 - _distance.
Top(results) == results[1].sim

VSStart == [best |-> <<>>, bestSim |-> 0, tried |-> <<>>, stop |-> FALSE]

IterLaterWinsTie(st, i, results) ==
    IF results # <<>> /\ Top(results) >= st.bestSim
    THEN [best |-> results, bestSim |-> Top(results),
          tried |-> Append(st.tried, i), stop |-> Top(results) >= ExcellentMatch]
    ELSE [st EXCEPT !.tried = Append(st.tried, i)]

\* One pass of the for loop: term i was embedded and searched, giving results.
VSIter(st, i, results) ==
    IF results # <<>> /\ Top(results) > st.bestSim
    THEN [best |-> results, bestSim |-> Top(results),
          tried |-> Append(st.tried, i), stop |-> Top(results) >= ExcellentMatch]
    ELSE [st EXCEPT !.tried = Append(st.tried, i)]

\* The filter after the loop.
FilterResults(results) == SelectSeq(results, LAMBDA r : r.sim >= SIMILARITY_THRESHOLD)

\* vector_search's loop from term i on.  lists[i] is what the index returns for
\* the i-th expanded term; failAt is the term whose embedding call raises (0: none).
RECURSIVE VSLoop(_, _, _, _)
VSLoop(lists, i, st, failAt) ==
    IF i > Len(lists) \/ st.stop THEN [raised |-> FALSE, st |-> st]
    ELSE IF i = failAt THEN [raised |-> TRUE, st |-> st]
    ELSE VSLoop(lists, i + 1, VSIter(st, i, lists[i]), failAt)

(***************************************************************************)
(* vector_search's loop, one pass per step, over given result lists        *)
(***************************************************************************)
MaxTerms == 4

VSLevels == {849, 850, 949, 950}

\* Shapes of one term's result list: the similarities, best first.
VSShapes == {<<>>} \cup {<<a>> : a \in VSLevels} \cup {<<960, 850>>, <<850, 849>>}

VSLists(shape) ==
    [i \in 1..Len(shape) |->
        [k \in 1..Len(shape[i]) |-> [id |-> k, sim |-> shape[i][k], term |-> i]]]

VSInputs == UNION {{VSLists(shape) : shape \in [1..n -> VSShapes]} : n \in 0..MaxTerms}

VSIdle == [pc |-> "idle", lists |-> <<>>, i |-> 1, st |-> VSStart, out |-> <<>>]

VSIterate ==
    /\ vs.pc = "loop"
    /\ vs.i <= Len(vs.lists)
    /\ ~vs.st.stop
    /\ vs' = [vs EXCEPT !.st = VSIter(vs.st, vs.i, vs.lists[vs.i]), !.i = vs.i + 1]
    /\ UNCHANGED <<env, sync, inflight, retry, normalization_cache, tierVars, lanceVars, rdsVars>>

VSReturn ==
    /\ vs.pc = "loop"
    /\ vs.i > Len(vs.lists) \/ vs.st.stop
    /\ vs' = [vs EXCEPT !.pc = "done", !.out = FilterResults(vs.st.best)]
    /\ UNCHANGED <<env, sync, inflight, retry, normalization_cache, tierVars, lanceVars, rdsVars>>

\* vector_search(embedding) of search-api (pgvector).  rows are the rows with
\* an embedding, best first (ORDER BY similarity DESC); the WHERE clause keeps
\* those above the threshold, and the best of them is returned, or None.
MAX_RESULTS == 5

RdsVectorSearch(rows) ==
    LET above == SelectSeq(rows, LAMBDA r : r.sim > SIMILARITY_THRESHOLD)
        limited == SubSeq(above, 1, IF Len(above) < MAX_RESULTS THEN Len(above) ELSE MAX_RESULTS)
    IN IF limited = <<>> THEN NoEntry ELSE limited[1]

(***************************************************************************)
(* The stores: a table is a function from the keys present to their items  *)
(***************************************************************************)
EmptyTable == [k \in {} |-> NoEntry]

Get(table, k) == IF k \in DOMAIN table THEN table[k] ELSE NoEntry

Put(table, k, item) == [x \in DOMAIN table \cup {k} |-> IF x = k THEN item ELSE table[x]]

Delete(table, k) == [x \in DOMAIN table \ {k} |-> table[x]]

\* What a call to a collaborator of the given kind can do in this environment.
Outcomes(kind) == IF kind \in env.faults THEN {TRUE, FALSE} ELSE {TRUE}

\* What a call to a DynamoDB table can do where the code catches
\* botocore's ClientError only: go through, raise a ClientError, or raise
\* another exception (EndpointConnectionError is not a ClientError).
TableOutcomes(kind) ==
    IF kind \in env.faults THEN {"ok", "ClientError", "other"} ELSE {"ok"}

(***************************************************************************)
(* The catalog and its index                                               *)
(***************************************************************************)
TxtNA == <<"n", "a">>
TxtA == <<"a">>

\* Cosine similarity of the embeddings of two texts, in thousandths: the
\* embedding service and the index are deterministic collaborators.
Sim(a, b) ==
    IF a = b THEN 1000
    ELSE IF Lower(a) = Lower(b) THEN 900
    ELSE IF {Lower(a), Lower(b)} = {<<"n">>, TxtNA} THEN 850
    ELSE IF {Lower(a), Lower(b)} = {<<"m">>, TxtNA} THEN 920
    ELSE 300

\* EMBEDDING_DIMENSIONS of the search handler: the length it asks Bedrock for,
\* and the length of the vectors of the re-indexed table it searches.
EMBEDDING_DIMENSIONS == 512

\* The length of the vectors of all-MiniLM-L6-v2, the Sentence Transformers
\* model the LanceDB worker encodes with.
MINILM_DIMENSIONS == 384

SeedCatalog ==
    << [id |-> 1, name |-> TxtNA, evidence_grade |-> "A", study_count |-> 120,
        search_count |-> 0, by |-> "seed", dim |-> EMBEDDING_DIMENSIONS] >>

\* Position of the nearest record among the positions in left (the first of equals).
Nearest(term, cat, left) ==
    CHOOSE i \in left : \A j \in left :
        \/ Sim(term, cat[i].name) > Sim(term, cat[j].name)
        \/ Sim(term, cat[i].name) = Sim(term, cat[j].name) /\ i <= j

RECURSIVE Ranked(_, _, _, _)
Ranked(term, cat, left, limit) ==
    IF left = {} \/ limit = 0 THEN <<>>
    ELSE LET i == Nearest(term, cat, left)
         IN <<[id |-> cat[i].id, name |-> cat[i].name,
               evidence_grade |-> cat[i].evidence_grade,
               study_count |-> cat[i].study_count,
               sim |-> Sim(term, cat[i].name)]>>
            \o Ranked(term, cat, left \ {i}, limit - 1)

\* table.search(embedding).metric("cosine").limit(limit).to_list()
IndexSearch(term, limit, cat) == Ranked(term, cat, DOMAIN cat, limit)

\* vector_search(query, limit) with the expansion the LLM gave.
VectorSearch(limit, cat, terms, failAt) ==
    LET lists == [i \in 1..Len(terms) |-> IndexSearch(terms[i], limit, cat)]
        run == VSLoop(lists, 1, VSStart, failAt)
    IN [raised |-> run.raised,
        results |-> FilterResults(run.st.best),
        embeds |-> Len(run.st.tried)]

\* What expand_query_intelligent can return for a query: the LLM's list, or
\* [query] when the call fails or its output does not parse.
ExpandOutcomes(query) == {<<query>>, <<TxtNA, query>>, <<TxtA>>}

(***************************************************************************)
(* Cache Store adapter of the LanceDB search handler                       *)
(***************************************************************************)
HandlerKeyCased(query) == Sha16(query)

\* query_hash of lambda_handler; the query is already stripped.
HandlerKey(query) == Sha16(Lower(query))

\* check_cache: the stored payload, or None on a miss or a store error.
CheckCache(table, key, ok) ==
    IF ok /\ key \in DOMAIN table THEN table[key].supplementData ELSE NoEntry

CACHE_TTL_DAYS == 7
CACHE_TTL_SECONDS == CACHE_TTL_DAYS * 24 * 60 * 60

\* The item store_cache and cache_supplement put: ttl is int(time.time()) plus
\* 7 days, searchCount 1, lastAccessed the time of the write.
CacheItem(data, embedding) ==
    [supplementData |-> data, embedding |-> embedding, ttl |-> now + CACHE_TTL_SECONDS,
     searchCount |-> 1, lastAccessed |-> now]

\* store_cache: put_item replaces the entry; a store error is swallowed.
\* The embedding of a text is represented by the text.
StoreCache(table, key, data, embedding, ok) ==
    IF ok
    THEN Put(table, key, CacheItem(data, embedding))
    ELSE table

\* The tables of the search handler are reached through boto3's resource
\* interface (lines 45 and 874): its serializer raises TypeError for a Python
\* float, and its deserializer returns every number as a decimal.Decimal.
\* The deployed handler and the repository's tests, which bind a moto table
\* behind boto3.resource to cache_table (test_cache_properties.py, line 65),
\* are under this rule.  "plain" is cache_table rebound to a table object
\* that keeps Python values as they are given, which does neither.
TypedNumbers == env.dynamodb = "boto3"

\* store_cache handing put_item an item whose floats it has converted to
\* decimal.Decimal: the item holds no float.
FloatsConverted(data, embedding) == FALSE

\* The item holds a float: the embedding is a list of floats, and the
\* payload's similarity is round(similarity, 3) (line 775).
HasFloat(data, embedding) == embedding # <<>> \/ "similarity" \in DOMAIN data

\* put_item's serializer raises TypeError for the item, before any request
\* goes to the table.
Unserializable(data, embedding) == TypedNumbers /\ HasFloat(data, embedding)

\* Whether put_item of store_cache goes through.
StoreOutcomes(data, embedding) ==
    IF Unserializable(data, embedding) THEN {FALSE} ELSE Outcomes("cacheWrite")

(***************************************************************************)
(* Synchronous discovery                                                   *)
(***************************************************************************)
MIN_STUDIES == 3

GradeShifted(study_count) ==
    IF study_count > 100 THEN "A"
    ELSE IF study_count > 50 THEN "B"
    ELSE IF study_count > 10 THEN "C"
    ELSE "D"

\* The evidence grade of a study count (try_sync_discovery step 3, query_pubmed).
Grade(study_count) ==
    IF study_count >= 100 THEN "A"
    ELSE IF study_count >= 50 THEN "B"
    ELSE IF study_count >= 10 THEN "C"
    ELSE "D"

\* existing['id'].max() + 1 if len(existing) > 0 else 1
RECURSIVE MaxId(_)
MaxId(cat) ==
    IF cat = <<>> THEN 0
    ELSE LET m == MaxId(Tail(cat)) IN IF Head(cat).id > m THEN Head(cat).id ELSE m

NextId(cat) == IF Len(cat) > 0 THEN MaxId(cat) + 1 ELSE 1

\* What the evidence oracle can answer: a count, or a failure.
OracleOutcomes ==
    {[kind |-> "count", n |-> c] : c \in env.counts}
    \cup (IF "oracle" \in env.faults
          THEN {[kind |-> "timeout", n |-> 0], [kind |-> "error", n |-> 0]}
          ELSE {})

(***************************************************************************)
(* normalize_query_intelligent and its in-memory table                     *)
(***************************************************************************)
RECURSIVE LStripChar(_, _)
LStripChar(s, c) == IF s # <<>> /\ Head(s) = c THEN LStripChar(Tail(s), c) ELSE s

RECURSIVE RStripChar(_, _)
RStripChar(s, c) ==
    IF s # <<>> /\ s[Len(s)] = c THEN RStripChar(SubSeq(s, 1, Len(s) - 1), c) ELSE s

\* str.strip(c) for one character c.
StripChar(s, c) == RStripChar(LStripChar(s, c), c)

\* Line 1006: text.strip().strip('"').strip('.')
Normalized(text) == StripChar(StripChar(Strip(text), "\""), ".")

\* What the LLM answers to the normalization prompt: its usual text for the
\* query, or, where the LLM is unreliable, another text or a failure.
NormalizeOutcomes(query) ==
    IF "llm" \in env.faults
    THEN {[kind |-> "raises", text |-> <<>>],
          [kind |-> "text", text |-> <<" ", "\"", "n", "a", "\"">>],
          [kind |-> "text", text |-> <<"a", ".">>]}
    ELSE {[kind |-> "text", text |-> <<"n", "a">>]}

MemoKeyCased(query) == Strip(query)

\* Line 963: query_lower, the key of the in-memory table.
MemoKey(query) == Strip(Lower(query))

\* normalize_query_intelligent(query) on the table memo, llm being what the
\* LLM answers if it is called.
NormalizeQueryIntelligent(query, llm, memo) ==
    LET query_lower == MemoKey(query)
    IN IF query_lower \in DOMAIN memo
       THEN [value |-> memo[query_lower], memo |-> memo, called |-> FALSE]
       ELSE IF llm.kind = "text"
       THEN [value |-> Normalized(llm.text),
             memo |-> Put(memo, query_lower, Normalized(llm.text)), called |-> TRUE]
       ELSE [value |-> query, memo |-> memo, called |-> TRUE]

\* Line 924: the time-to-live of a pubmed-cache item, 30 days in seconds.
PUBMED_TTL_SECONDS == 30 * 24 * 60 * 60

PubmedKeyRaw(query) == query

\* Line 870: the key of a term in pubmed-cache.
PubmedKey(query) == Strip(Lower(query))

\* Line 1091: a study count below MIN_STUDIES ends the discovery.
Admits(study_count) == ~(study_count < MIN_STUDIES)

(***************************************************************************)
(* Discovery queue of the LanceDB pipeline                                 *)
(***************************************************************************)
\* query_id of add_to_discovery_queue (search-api-lancedb).
QueueKey(query) == Sha16(query)

\* The change record DynamoDB emits for a write that leaves item under key.
ChangeRecord(queue, key, item) ==
    [eventName |-> IF key \in DOMAIN queue THEN "MODIFY" ELSE "INSERT",
     key |-> key, image |-> item]

AddAccumulating(q, query, ok) ==
    LET key == QueueKey(query)
        n == IF key \in DOMAIN q.queue THEN q.queue[key].searchCount + 1 ELSE 1
        item == [query |-> query, searchCount |-> IF n < 3 THEN n ELSE 3, priority |-> 1,
                 status |-> "pending", errorMessage |-> "none"]
    IN IF ok
       THEN [queue |-> Put(q.queue, key, item),
             stream |-> Append(q.stream, ChangeRecord(q.queue, key, item))]
       ELSE q

\* add_to_discovery_queue(query): put_item replaces the item; a store error is
\* swallowed.
AddToDiscoveryQueue(q, query, ok) ==
    LET key == QueueKey(query)
        item == [query |-> query, searchCount |-> 1, priority |-> 1,
                 status |-> "pending", errorMessage |-> "none"]
    IN IF ok
       THEN [queue |-> Put(q.queue, key, item),
             stream |-> Append(q.stream, ChangeRecord(q.queue, key, item))]
       ELSE q

LQ == [queue |-> lqueue, stream |-> lstream]

(***************************************************************************)
(* The LanceDB search handler: what an invocation holds                    *)
(***************************************************************************)
MaxQueryLen == 200
MaxStream == 2
MaxCatalog == 2

Limits == {5}

\* The q parameter of a request ("" also stands for a missing q).
RawQueries == {<<>>, <<" ", "N">>, <<"z">>}

NoResp ==
    [q |-> <<>>, status |-> 0, cacheHit |-> FALSE, source |-> "none",
     supplement |-> NoEntry, alternatives |-> <<>>, reason |-> "none", studyCount |-> 0,
     expands |-> 0, searches |-> 0, enqueues |-> 0, queued |-> FALSE,
     readFault |-> FALSE, stored |-> FALSE, disc |-> NoEntry, stood |-> NoEntry,
     prev |-> <<>>, answered |-> NoEntry, rejected |-> FALSE,
     key |-> NoEntry, embedding |-> <<>>, writeFault |-> FALSE, redisFault |-> FALSE,
     replaced |-> NoEntry, pubmed |-> NoEntry, reads |-> 0, limitRaised |-> FALSE,
     llm |-> NoEntry, returned |-> NoEntry, hits |-> -1, tiers |-> <<>>, worker |-> NoEntry,
     matched |-> FALSE, expiry |-> -1, readAt |-> -1, processed |-> -1]

\* Concurrent invocations of the search handler (Lambda runs one per
\* request in flight).
MaxSyncCalls == 2
SyncCalls == 1..MaxSyncCalls

\* An invocation of the search handler: where it stands, its q and limit,
\* the expansion its search uses, the term the loop of vector_search is at
\* and the loop's best results so far, its response so far, the results of
\* its search, the payload it called store_cache with and the payload it
\* wrote to the cache (NoEntry: none).
HIdle == [pc |-> "idle", raw |-> <<>>, limit |-> 0, exp |-> <<>>, i |-> 0, st |-> VSStart,
          resp |-> NoResp, results |-> <<>>, handed |-> NoEntry, wrote |-> NoEntry]
NoRequests == [p \in SyncCalls |-> HIdle]

\* A call of try_sync_discovery, or of get_pubmed_count_cached on its own
\* (fn): where it stands, its query, what pubmed-cache held for the term when
\* it was read (-1: nothing) and whether that read raised, the study count
\* and whether it is a decimal.Decimal, the id read for the new record, and
\* what the call returned to the handler.
SyncIdle == [pc |-> "idle", fn |-> "none", query |-> <<>>, held |-> -1, readFault |-> FALSE,
             read |-> "ok",
             study_count |-> 0, decimal |-> FALSE, next_id |-> 0, result |-> NoEntry]
NoSync == [p \in SyncCalls |-> SyncIdle]

(***************************************************************************)
(* get_pubmed_count_cached and try_sync_discovery, one store call per step *)
(***************************************************************************)
\* What a call of try_sync_discovery returned and did: its result, whether
\* its study_count is a decimal.Decimal, the count the oracle (or its cache)
\* returned (-1: none), whether the embedding call or table.add raised, and
\* the records it added to the catalog.
NoDisc ==
    [success |-> FALSE, study_count |-> 0, decimal |-> FALSE, reason |-> "none",
     evidence_grade |-> "none", returned |-> -1, embedFailed |-> FALSE, addFailed |-> FALSE,
     inserted |-> <<>>]

SyncRaisedAssumesEvidence(kind) ==
    [NoDisc EXCEPT !.success = TRUE, !.study_count = MIN_STUDIES,
                   !.evidence_grade = Grade(MIN_STUDIES)]

\* Lines 1159-1176: the except clauses of try_sync_discovery for a raise of
\* get_pubmed_count_cached.
SyncRaised(kind) ==
    [NoDisc EXCEPT !.reason = IF kind = "timeout" THEN "pubmed_timeout" ELSE "error"]

\* Lines 1126-1147: the record try_sync_discovery adds.
SyncRecord(query, study_count, next_id) ==
    [id |-> next_id, name |-> query, evidence_grade |-> Grade(study_count),
     study_count |-> study_count, search_count |-> 0, by |-> "sync",
     dim |-> EMBEDDING_DIMENSIONS]

\* The invocation p of the handler is inside its call of try_sync_discovery.
Called(p) == inflight[p].pc = "discover"

\* try_sync_discovery returns d: to the handler that called it, or to a
\* direct caller.
SyncEnd(p, d) ==
    /\ sync' = [sync EXCEPT ![p] = IF Called(p)
                                   THEN [SyncIdle EXCEPT !.pc = "returned", !.result = d]
                                   ELSE SyncIdle]
    /\ last' = IF Called(p) THEN NoResp
               ELSE [NoResp EXCEPT !.q = sync[p].query, !.disc = d]

\* What a direct call of get_pubmed_count_cached gave: the count or the
\* exception, whether the oracle was asked and the count written.
PubmedReport(s, raised, count, asked, wrote) ==
    [NoResp EXCEPT !.q = s.query, !.source = "get_pubmed_count_cached",
                   !.readFault = s.readFault,
                   !.pubmed = [raised |-> raised, count |-> count, asked |-> asked,
                               wrote |-> wrote, held |-> s.held, read |-> s.read,
                               at |-> now]]

\* get_pubmed_count_cached returns count (lines 881, 937) and, in
\* try_sync_discovery, the threshold follows (lines 1091-1100).  s is the
\* call as it stands; decimal tells whether count is a decimal.Decimal.
CountReturned(p, s, count, decimal, asked, wrote) ==
    IF s.fn = "get_pubmed_count_cached"
    THEN /\ sync' = [sync EXCEPT ![p] = SyncIdle]
         /\ last' = PubmedReport(s, "no", count, asked, wrote)
    ELSE IF ~Admits(count)
    THEN SyncEnd(p, [NoDisc EXCEPT !.reason = "insufficient_studies", !.study_count = count,
                                   !.decimal = decimal, !.returned = count])
    ELSE /\ sync' = [sync EXCEPT ![p] = [s EXCEPT !.pc = "validated", !.study_count = count,
                                                  !.decimal = decimal]]
         /\ last' = NoResp

\* get_pubmed_count_cached raises (lines 918-920, 940-942); asked tells
\* whether the proxy Lambda had been invoked.
CountRaised(p, s, kind, asked) ==
    IF s.fn = "get_pubmed_count_cached"
    THEN /\ sync' = [sync EXCEPT ![p] = SyncIdle]
         /\ last' = PubmedReport(s, kind, 0, asked, FALSE)
    ELSE SyncEnd(p, SyncRaised(kind))

\* try_sync_discovery(query) called directly.
SyncCall(p, query) ==
    /\ env.deployed = "lancedb"
    /\ sync[p].pc = "idle"
    /\ inflight[p].pc \in {"idle", "done"}
    /\ sync' = [sync EXCEPT ![p] = [SyncIdle EXCEPT !.pc = "called",
                                                    !.fn = "try_sync_discovery",
                                                    !.query = query]]
    /\ last' = NoResp
    /\ UNCHANGED <<env, inflight, retry, normalization_cache, tierVars, cache, catalog,
                   pubmedCache, lqueue, lstream, lw, rdsVars, vs>>

\* get_pubmed_count_cached(query) called directly.
PubmedCall(p, query) ==
    /\ env.deployed = "lancedb"
    /\ sync[p].pc = "idle"
    /\ inflight[p].pc \in {"idle", "done"}
    /\ sync' = [sync EXCEPT ![p] = [SyncIdle EXCEPT !.pc = "called",
                                                    !.fn = "get_pubmed_count_cached",
                                                    !.query = query]]
    /\ last' = NoResp
    /\ UNCHANGED <<env, inflight, retry, normalization_cache, tierVars, cache, catalog,
                   pubmedCache, lqueue, lstream, lw, rdsVars, vs>>

\* Line 1082 of try_sync_discovery (build_optimized_pubmed_query, which
\* normalizes the query) and lines 870-884 of get_pubmed_count_cached: the
\* get_item on pubmed-cache.  A count found is returned as the table's
\* deserializer gives it; a ClientError is printed and counts as a miss
\* (lines 884-886); any other exception of get_item leaves the function
\* through its outer except clause, which raises it again (lines 940-942).
PubmedRead(p) ==
    LET s == sync[p]
        cache_key == PubmedKey(s.query)
        held == cache_key \in DOMAIN pubmedCache
    IN /\ s.pc = "called"
       /\ \E read \in TableOutcomes("pcacheRead"), llm \in NormalizeOutcomes(s.query) :
            LET readOk == read = "ok"
                s1 == [s EXCEPT !.readFault = ~readOk, !.read = read,
                                !.held = IF held THEN pubmedCache[cache_key].count ELSE -1]
            IN /\ normalization_cache' =
                     IF s.fn = "try_sync_discovery"
                     THEN NormalizeQueryIntelligent(s.query, llm, normalization_cache).memo
                     ELSE normalization_cache
               /\ IF read = "other"
                  THEN CountRaised(p, s1, "error", FALSE)
                  ELSE IF readOk /\ held
                  THEN CountReturned(p, s1, pubmedCache[cache_key].count, TypedNumbers,
                                     FALSE, FALSE)
                  ELSE /\ sync' = [sync EXCEPT ![p] = [s1 EXCEPT !.pc = "asking"]]
                       /\ last' = NoResp
       /\ UNCHANGED <<env, inflight, retry, tierVars, cache, catalog, pubmedCache, lqueue,
                      lstream, lw, rdsVars, vs>>

\* Lines 886-937: build_optimized_pubmed_query again, the oracle (the proxy
\* Lambda) and the put_item of a count it returned, with a ttl of 30 days; a
\* ClientError of put_item is printed and the count returned (lines 935-937),
\* any other exception of put_item is raised again (lines 940-942).
PubmedAsk(p) ==
    LET s == sync[p]
    IN /\ s.pc = "asking"
       /\ \E oc \in OracleOutcomes, write \in TableOutcomes("pcacheWrite"),
             llm \in NormalizeOutcomes(s.query) :
            LET writeOk == write = "ok"
            IN /\ normalization_cache' =
                     NormalizeQueryIntelligent(s.query, llm, normalization_cache).memo
               /\ IF oc.kind = "count"
                  THEN /\ pubmedCache' =
                             IF writeOk
                             THEN Put(pubmedCache, PubmedKey(s.query),
                                      [count |-> oc.n, ttl |-> now + PUBMED_TTL_SECONDS])
                             ELSE pubmedCache
                       /\ IF write = "other"
                          THEN CountRaised(p, s, "error", TRUE)
                          ELSE CountReturned(p, s, oc.n, FALSE, TRUE, writeOk)
                  ELSE /\ pubmedCache' = pubmedCache
                       /\ CountRaised(p, s, oc.kind, TRUE)
       /\ UNCHANGED <<env, inflight, retry, tierVars, cache, catalog, lqueue, lstream, lw,
                      rdsVars, vs>>

\* Lines 1112-1124: the embedding, then existing = table.to_pandas() and
\* next_id; a failed embedding ends the call (lines 1167-1176).
SyncRead(p) ==
    LET s == sync[p]
    IN /\ s.pc = "validated"
       /\ \E embedOk \in Outcomes("embed") :
            IF embedOk
            THEN /\ sync' = [sync EXCEPT ![p] = [s EXCEPT !.pc = "read",
                                                          !.next_id = NextId(catalog)]]
                 /\ last' = NoResp
            ELSE SyncEnd(p, [NoDisc EXCEPT !.reason = "error", !.returned = s.study_count,
                                           !.embedFailed = TRUE])
       /\ UNCHANGED <<env, inflight, retry, normalization_cache, tierVars, cache, catalog,
                      pubmedCache, lqueue, lstream, lw, rdsVars, vs>>

\* What table.add does with the record: with a study count that is a
\* decimal.Decimal the conversion of the record to the table's schema is the
\* library's, and it goes through or raises.
AddOutcomes(decimal) == IF decimal THEN {TRUE, FALSE} ELSE {TRUE}

SyncAddUnlessPresent(p) ==
    LET s == sync[p]
        record == SyncRecord(s.query, s.study_count, s.next_id)
    IN /\ s.pc = "read"
       /\ Len(catalog) < MaxCatalog
       /\ catalog' = IF \E i \in 1..Len(catalog) : catalog[i].name = s.query
                     THEN catalog
                     ELSE Append(catalog, record)
       /\ SyncEnd(p, [NoDisc EXCEPT !.success = TRUE, !.study_count = s.study_count,
                                    !.decimal = s.decimal,
                                    !.evidence_grade = Grade(s.study_count),
                                    !.returned = s.study_count,
                                    !.inserted = <<record>>])
       /\ UNCHANGED <<env, inflight, retry, normalization_cache, tierVars, cache, pubmedCache,
                      lqueue, lstream, lw, rdsVars, vs>>

\* Lines 1126-1157: table.add of the record with the id read before, and the
\* return; a raise of table.add ends the call in the except clause.
SyncAdd(p) ==
    LET s == sync[p]
        record == SyncRecord(s.query, s.study_count, s.next_id)
    IN /\ s.pc = "read"
       /\ \E addOk \in AddOutcomes(s.decimal) :
            IF addOk
            THEN /\ Len(catalog) < MaxCatalog
                 /\ s.next_id <= MaxCatalog
                 /\ catalog' = Append(catalog, record)
                 /\ SyncEnd(p, [NoDisc EXCEPT !.success = TRUE, !.study_count = s.study_count,
                                              !.decimal = s.decimal,
                                              !.evidence_grade = Grade(s.study_count),
                                              !.returned = s.study_count,
                                              !.inserted = <<record>>])
            ELSE /\ catalog' = catalog
                 /\ SyncEnd(p, [NoDisc EXCEPT !.reason = "error", !.returned = s.study_count,
                                              !.addFailed = TRUE])
       /\ UNCHANGED <<env, inflight, retry, normalization_cache, tierVars, cache, pubmedCache,
                      lqueue, lstream, lw, rdsVars, vs>>

(***************************************************************************)
(* The LanceDB search handler, one store call per step                     *)
(***************************************************************************)
SupplementData(r) ==
    [id |-> r.id, name |-> r.name, evidence_grade |-> r.evidence_grade,
     study_count |-> r.study_count, similarity |-> r.sim]

IsDigit(c) == c \in {"0", "1", "2", "3", "4", "5", "6", "7", "8", "9"}

DigitValue(c) ==
    CASE c = "0" -> 0 [] c = "1" -> 1 [] c = "2" -> 2 [] c = "3" -> 3 [] c = "4" -> 4
      [] c = "5" -> 5 [] c = "6" -> 6 [] c = "7" -> 7 [] c = "8" -> 8 [] c = "9" -> 9

RECURSIVE DecimalValue(_)
DecimalValue(s) == IF s = <<>> THEN 0 ELSE 10 * DecimalValue(SubSeq(s, 1, Len(s) - 1)) + DigitValue(s[Len(s)])

\* int(text) of a parameter's text: surrounding blanks are dropped, then an
\* optional sign and decimal digits give the value; any other text raises
\* ValueError.
ParseInt(text) ==
    LET t == Strip(text)
        signed == t # <<>> /\ Head(t) \in {"-", "+"}
        digits == IF signed THEN Tail(t) ELSE t
    IN IF digits # <<>> /\ \A i \in 1..Len(digits) : IsDigit(digits[i])
       THEN [raised |-> FALSE,
             value |-> IF signed /\ Head(t) = "-" THEN 0 - DecimalValue(digits) ELSE DecimalValue(digits)]
       ELSE [raised |-> TRUE, value |-> 0]

\* A parameter of the query string: its text, or that the request does not
\* carry it.
Param(text) == [present |-> TRUE, text |-> text]
NoParam == [present |-> FALSE, text |-> <<>>]

\* Line 687: int(query_params.get('top_k') or query_params.get('limit', 5));
\* a ValueError goes to the handler's except clause (lines 807-819): 500.
LimitOf(top_k, limit) ==
    LET chosen == IF top_k.present /\ top_k.text # <<>> THEN top_k ELSE limit
    IN IF ~chosen.present
       THEN [raised |-> FALSE, status |-> 200, value |-> CHOOSE l \in Limits : TRUE]
       ELSE IF ParseInt(chosen.text).raised
       THEN [raised |-> TRUE, status |-> 500, value |-> 0]
       ELSE [raised |-> FALSE, status |-> 200, value |-> ParseInt(chosen.text).value]

QueryRejectedFrom200(query) == query = <<>> \/ Len(query) >= MaxQueryLen

\* Lines 664-684: the stripped q is empty, or longer than 200 characters.
QueryRejected(query) == query = <<>> \/ Len(query) > MaxQueryLen

\* The invocation p answers resp and ends; wrote is the payload it put into
\* the cache.
Respond(p, resp, wrote) ==
    /\ last' = resp
    /\ inflight' = [inflight EXCEPT ![p] = [HIdle EXCEPT !.pc = "done",
                                                         !.raw = inflight[p].raw,
                                                         !.exp = inflight[p].exp,
                                                         !.wrote = wrote]]

\* Lines 652-704 of lambda_handler for a request with parameters q = raw,
\* top_k and limit: the validation of q, the limit, the key and check_cache;
\* a hit is answered at once.  answered: the supplement the previous
\* response gave, and prev its q, if that response was a 200 with cacheHit
\* false for a q of the same lowercased, trimmed form and the cache table did
\* not fail its write; stood: the same, if the write went through.
HCheck(p, raw, top_k, limitParam) ==
    LET query == Strip(raw)
        key == HandlerKey(query)
        follows == /\ last.status = 200 /\ ~last.cacheHit /\ ~last.writeFault
                   /\ Lower(Strip(last.q)) = Lower(query)
        r0 == [NoResp EXCEPT !.q = raw, !.key = key,
                             !.stood = IF follows /\ last.stored
                                       THEN last.supplement ELSE NoEntry,
                             !.answered = IF follows THEN last.supplement ELSE NoEntry,
                             !.prev = IF follows THEN last.q ELSE <<>>]
        lim == LimitOf(top_k, limitParam)
        answer(resp) == last' = resp /\ inflight' = [inflight EXCEPT ![p] = HIdle]
    IN /\ env.deployed = "lancedb"
       /\ inflight[p].pc \in {"idle", "done"}
       /\ sync[p].pc = "idle"
       /\ IF QueryRejected(query)
          THEN answer([r0 EXCEPT !.status = 400])
          ELSE IF lim.status # 200
          THEN answer([r0 EXCEPT !.status = lim.status, !.limitRaised = lim.raised])
          ELSE \E readOk \in Outcomes("cacheRead") :
               LET cached == CheckCache(cache, key, readOk)
                   r1 == [r0 EXCEPT !.readFault = ~readOk, !.reads = 1]
               IN IF cached # NoEntry
                  THEN answer([r1 EXCEPT !.status = 200, !.cacheHit = TRUE,
                                         !.source = "dynamodb", !.supplement = cached,
                                         !.expiry = cache[key].ttl, !.readAt = now])
                  ELSE /\ inflight' = [inflight EXCEPT ![p] =
                                          [HIdle EXCEPT !.pc = "missed", !.raw = raw,
                                                        !.limit = lim.value, !.resp = r1]]
                       /\ last' = NoResp
       /\ UNCHANGED <<env, sync, retry, normalization_cache, tierVars, cache, catalog,
                      pubmedCache, lqueue, lstream, lw, rdsVars, vs>>

\* try_sync_discovery has returned success to the invocation p (line 718).
Discovered(p) ==
    inflight[p].pc = "discover" /\ sync[p].pc = "returned" /\ sync[p].result.success

\* try_sync_discovery has returned a failure to the invocation p (line 731).
Refused(p) ==
    inflight[p].pc = "discover" /\ sync[p].pc = "returned" /\ ~sync[p].result.success

\* vector_search up to its loop (lines 239-247): expand_query_intelligent
\* gives the terms; called after the cache miss (line 708) and again after a
\* discovery that succeeded (line 723).
HExpand(p) ==
    LET h == inflight[p]
    IN /\ h.pc = "missed" \/ Discovered(p)
       /\ \E exp \in ExpandOutcomes(Strip(h.raw)) :
            inflight' = [inflight EXCEPT ![p] =
                            [h EXCEPT !.pc = "searching", !.exp = exp, !.i = 1, !.st = VSStart,
                                      !.resp = [@ EXCEPT !.expands = @ + 1,
                                                         !.disc = IF Discovered(p)
                                                                  THEN sync[p].result
                                                                  ELSE @]]]
       /\ sync' = [sync EXCEPT ![p] = SyncIdle]
       /\ last' = NoResp
       /\ UNCHANGED <<env, retry, normalization_cache, tierVars, cache, catalog, pubmedCache,
                      lqueue, lstream, lw, rdsVars, vs>>

AfterSearchDiscoversAgain(expands, results) ==
    IF results # <<>> THEN "found" ELSE "discover"

\* Lines 709-750: what follows a vector_search that returned results: the
\* result handling, or after the first search the discovery, or after the
\* second the 404 of a query that was not found.
AfterSearch(expands, results) ==
    IF results # <<>> THEN "found"
    ELSE IF expands = 1 THEN "discover"
    ELSE "notfound"

\* One pass of vector_search's loop (lines 249-278): the embedding of the
\* term, the search of the table as it stands, and the comparison; after the
\* last pass the filter (lines 281-284) and the return.  An embedding that
\* raises ends the request with 500 (lines 807-819).
HTerm(p) ==
    LET h == inflight[p]
    IN /\ h.pc = "searching"
       /\ \E embedOk \in Outcomes("embed") :
            IF ~embedOk
            THEN /\ Respond(p, [h.resp EXCEPT !.status = 500], NoEntry)
                 /\ sync' = sync
            ELSE LET st == VSIter(h.st, h.i, IndexSearch(h.exp[h.i], h.limit, catalog))
                     resp == [h.resp EXCEPT !.searches = @ + 1]
                     over == h.i + 1 > Len(h.exp) \/ st.stop
                     results == FilterResults(st.best)
                     next == AfterSearch(resp.expands, results)
                 IN /\ inflight' = [inflight EXCEPT ![p] =
                                       IF ~over
                                       THEN [h EXCEPT !.i = h.i + 1, !.st = st, !.resp = resp]
                                       ELSE [h EXCEPT !.pc = next, !.st = st,
                                                      !.results = results,
                                                      !.resp = [resp EXCEPT !.hits = Len(results)]]]
                    /\ sync' = IF over /\ next = "discover"
                               THEN [sync EXCEPT ![p] =
                                        [SyncIdle EXCEPT !.pc = "called",
                                                         !.fn = "try_sync_discovery",
                                                         !.query = Strip(h.raw)]]
                               ELSE sync
                    /\ last' = NoResp
       /\ UNCHANGED <<env, retry, normalization_cache, tierVars, cache, catalog, pubmedCache,
                      lqueue, lstream, lw, rdsVars, vs>>

\* Lines 735-763: add_to_discovery_queue and the 404 response.  decimal: the
\* body carries a studyCount that is a decimal.Decimal, which json.dumps
\* does not serialize (lines 740-744): the TypeError ends the request with 500
\* (lines 807-819), after the put.
NotFound(resp, query, decimal) ==
    \E putOk \in Outcomes("queuePut") :
        LET q2 == AddToDiscoveryQueue(LQ, query, putOk)
        IN /\ putOk => Len(lstream) < MaxStream
           /\ last' = [resp EXCEPT !.status = IF decimal THEN 500 ELSE 404,
                                   !.enqueues = 1, !.queued = putOk]
           /\ lqueue' = q2.queue
           /\ lstream' = q2.stream

\* The branch of a discovery that failed (lines 731-748) and that of a
\* second search without results (lines 750-763).
HNotFound(p) ==
    LET h == inflight[p]
        d == sync[p].result
        r1 == IF Refused(p)
              THEN [h.resp EXCEPT !.disc = d, !.reason = d.reason,
                                  !.studyCount = d.study_count]
              ELSE h.resp
    IN /\ h.pc = "notfound" \/ Refused(p)
       /\ NotFound(r1, Strip(h.raw), Refused(p) /\ d.decimal)
       /\ inflight' = [inflight EXCEPT ![p] = [HIdle EXCEPT !.pc = "done", !.raw = h.raw,
                                                            !.exp = h.exp]]
       /\ sync' = [sync EXCEPT ![p] = SyncIdle]
       /\ UNCHANGED <<env, retry, normalization_cache, tierVars, cache, catalog, pubmedCache,
                      lw, rdsVars, vs>>

FoundFailsOnWriteError(resp, key, results) ==
    LET data == SupplementData(results[1])
    IN \E writeOk \in StoreOutcomes(data, Strip(resp.q)) :
        /\ last' = [resp EXCEPT !.status = IF writeOk THEN 200 ELSE 500, !.source = "lancedb",
                                !.matched = TRUE,
                                !.supplement = IF writeOk THEN data ELSE NoEntry,
                                !.stored = writeOk,
                                !.rejected = Unserializable(data, Strip(resp.q)),
                                !.writeFault = ~writeOk
                                               /\ ~Unserializable(data, Strip(resp.q))]
        /\ cache' = StoreCache(cache, key, data, Strip(resp.q), writeOk)

\* Lines 765-805: the payload of the best match, the embedding of the query,
\* store_cache under key, and the 200 response; an embedding that raises
\* ends the request with 500 (lines 807-819).
Found(resp, key, results) ==
    \E embedOk \in Outcomes("embed") :
        IF ~embedOk
        THEN /\ last' = [resp EXCEPT !.status = 500, !.matched = TRUE]
             /\ cache' = cache
        ELSE LET data == SupplementData(results[1])
             IN \E writeOk \in StoreOutcomes(data, Strip(resp.q)) :
                 /\ last' = [resp EXCEPT !.status = 200, !.source = "lancedb",
                                         !.supplement = data, !.matched = TRUE,
                                         !.stored = writeOk,
                                         !.rejected = Unserializable(data, Strip(resp.q)),
                                         !.writeFault = ~writeOk
                                                /\ ~Unserializable(data, Strip(resp.q)),
                                         !.replaced = Get(cache, key),
                                         !.alternatives = [i \in 1..(Len(results) - 1) |->
                                                              SupplementData(results[i + 1])]]
                 /\ cache' = StoreCache(cache, key, data, Strip(resp.q), writeOk)

\* The result handling of the invocation p.
HStore(p) ==
    LET h == inflight[p]
    IN /\ h.pc = "found"
       /\ Found(h.resp, HandlerKey(Strip(h.raw)), h.results)
       /\ inflight' = [inflight EXCEPT ![p] =
                          [HIdle EXCEPT !.pc = "done", !.raw = h.raw, !.exp = h.exp,
                                        !.handed = IF last'.status = 200
                                                   THEN last'.supplement ELSE NoEntry,
                                        !.wrote = IF last'.status = 200 /\ last'.stored
                                                  THEN last'.supplement ELSE NoEntry]]
       /\ UNCHANGED <<env, sync, retry, normalization_cache, tierVars, catalog, pubmedCache,
                      lqueue, lstream, lw, rdsVars, vs>>

(***************************************************************************)
(* The cache adapter called on its own, the clock, and DynamoDB's expiry   *)
(***************************************************************************)
MaxDrift == 1
MaxEpochs == 1

\* The instants the clock takes: whole TTL periods from 0, and up to MaxDrift
\* seconds after each.
Instants == {a + b * CACHE_TTL_SECONDS : a \in 0..MaxDrift, b \in 0..MaxEpochs}

CacheTexts == {<<"n">>, <<"z">>}

CachePayloads ==
    {[id |-> 1, name |-> TxtNA, evidence_grade |-> "A", study_count |-> 120, similarity |-> sim] :
        sim \in {SIMILARITY_THRESHOLD, 1000}}

\* store_cache(query_hash, supplement_data, embedding) called directly.
StoreCacheCall(key, data, embedding) ==
    /\ env.deployed = "lancedb"
    /\ \E ok \in StoreOutcomes(data, embedding) :
         /\ cache' = StoreCache(cache, key, data, embedding, ok)
         /\ last' = [NoResp EXCEPT !.source = "store_cache", !.key = key, !.supplement = data,
                                   !.embedding = embedding, !.stored = ok,
                                   !.rejected = Unserializable(data, embedding),
                                   !.writeFault = ~ok /\ ~Unserializable(data, embedding)]
    /\ UNCHANGED <<env, sync, inflight, retry, normalization_cache, tierVars, catalog, pubmedCache, lqueue, lstream, lw, rdsVars, vs>>

\* check_cache(query_hash) called directly.  answered: the payload of the
\* call just before, if that call was a store_cache of the same key that the
\* table did not fail; stood: the same, if the put went through.
CheckCacheCall(key) ==
    /\ env.deployed = "lancedb"
    /\ \E ok \in Outcomes("cacheRead") :
         last' = [NoResp EXCEPT !.source = "check_cache", !.key = key,
                               !.supplement = CheckCache(cache, key, ok),
                               !.readFault = ~ok,
                               !.stood = IF last.source = "store_cache" /\ last.key = key
                                            /\ last.stored
                                         THEN last.supplement ELSE NoEntry,
                               !.answered = IF last.source = "store_cache" /\ last.key = key
                                               /\ ~last.writeFault
                                            THEN last.supplement ELSE NoEntry]
    /\ UNCHANGED <<env, sync, inflight, retry, normalization_cache, tierVars, cache, catalog, pubmedCache, lqueue, lstream, lw, rdsVars, vs>>

\* Time passes.  Redis drops a key at its expiry.
Tick ==
    /\ \E t \in Instants :
         /\ t > now
         /\ now' = t
         /\ redis' = [k \in {j \in DOMAIN redis : redis[j].expiresAt = -1 \/ redis[j].expiresAt > t}
                        |-> redis[k]]
    /\ last' = NoResp
    /\ UNCHANGED <<env, sync, inflight, retry, normalization_cache, cache, catalog, pubmedCache, lqueue, lstream, lw, rdsVars, vs>>

\* DynamoDB's time-to-live: an item whose ttl attribute is in the past is
\* deleted by the table, some time after it expired.
Expire ==
    /\ \E k \in DOMAIN cache :
         /\ cache[k].ttl < now
         /\ cache' = Delete(cache, k)
    /\ last' = NoResp
    /\ UNCHANGED <<env, sync, inflight, retry, normalization_cache, tierVars, catalog, pubmedCache, lqueue, lstream, lw, rdsVars, vs>>

(***************************************************************************)
(* expand_query_intelligent called on its own                              *)
(***************************************************************************)
MaxExpansion == 5

\* JSON values the LLM's text can parse to: arrays of strings of up to
\* MaxExpansion terms, an array holding a number, an object, a string, a
\* number.  A Python value is its type and its content.
JsonTerms == {TxtNA, <<"N">>}

JsonArrays ==
    UNION {[1..n -> {[type |-> "str", text |-> t] : t \in JsonTerms}] : n \in 0..MaxExpansion}

JsonValues ==
    {[type |-> "list", items |-> a] : a \in JsonArrays}
    \cup {[type |-> "list", items |-> <<[type |-> "str", text |-> TxtNA], [type |-> "int", text |-> <<"7">>]>>],
          [type |-> "dict", items |-> <<[type |-> "str", text |-> TxtNA]>>],
          [type |-> "str", items |-> <<[type |-> "str", text |-> TxtNA]>>],
          [type |-> "int", items |-> <<[type |-> "int", text |-> <<"7">>]>>]}

\* What the call of the LLM gives: it raises, its text is not JSON, or its
\* text is the JSON text of a value.
LlmOutcomes ==
    {[kind |-> "raises", value |-> NoEntry], [kind |-> "not json", value |-> NoEntry]}
    \cup {[kind |-> "json", value |-> v] : v \in JsonValues}

\* A Python list of strings.
ListOf(terms) == [type |-> "list", items |-> [i \in 1..Len(terms) |-> [type |-> "str", text |-> terms[i]]]]

\* expand_query_intelligent(query): json.loads of the LLM's text is returned
\* as it is; any exception gives [query].
ExpandQueryIntelligent(query, llm) ==
    IF llm.kind = "json" THEN llm.value ELSE ListOf(<<query>>)

ExpandQueries == {<<"N">>, <<"z">>}

\* expand_query_intelligent(query) called directly.
Expand(query) ==
    /\ env.deployed = "lancedb"
    /\ \E llm \in LlmOutcomes :
         last' = [NoResp EXCEPT !.q = query, !.source = "expand_query_intelligent",
                               !.llm = llm, !.returned = ExpandQueryIntelligent(query, llm)]
    /\ UNCHANGED <<env, sync, inflight, retry, normalization_cache, tierVars, cache, catalog, pubmedCache, lqueue, lstream, lw, rdsVars, vs>>

(***************************************************************************)
(* normalize_query_intelligent called on its own, and a new execution      *)
(* context                                                                 *)
(***************************************************************************)
NormalizeQueries == {<<"N">>, <<" ", "n">>, <<"z">>, <<"A">>}

\* normalize_query_intelligent(query) called directly.  stood: the term the
\* table held for the query when the call was made.
Normalize(query) ==
    /\ env.deployed = "lancedb"
    /\ \E llm \in NormalizeOutcomes(query) :
         LET n == NormalizeQueryIntelligent(query, llm, normalization_cache)
         IN /\ normalization_cache' = n.memo
            /\ last' = [NoResp EXCEPT !.q = query, !.source = "normalize_query_intelligent",
                                      !.llm = [kind |-> llm.kind, called |-> n.called],
                                      !.returned = n.value,
                                      !.stood = Get(normalization_cache, Lower(Strip(query)))]
    /\ UNCHANGED <<env, sync, inflight, retry, tierVars, cache, catalog, pubmedCache, lqueue, lstream, lw, rdsVars, vs>>

\* Line 946: a new execution context starts with an empty table.
ColdStart ==
    /\ normalization_cache # EmptyTable
    /\ normalization_cache' = EmptyTable
    /\ last' = NoResp
    /\ UNCHANGED <<env, sync, inflight, retry, tierVars, cache, catalog, pubmedCache, lqueue, lstream, lw, rdsVars, vs>>

(***************************************************************************)
(* get_pubmed_count_cached called on its own, and pubmed-cache's expiry    *)
(***************************************************************************)
\* The instants of the clock around the end of a pubmed-cache item's life.
PubmedInstants == {a + b * PUBMED_TTL_SECONDS : a \in 0..MaxDrift, b \in 0..MaxEpochs}

PubmedTerms == {<<"N">>, <<" ", "n">>, <<"z">>}

\* Time passes.
PubmedTick ==
    /\ \E t \in PubmedInstants :
         /\ t > now
         /\ now' = t
    /\ redis = EmptyTable
    /\ last' = NoResp
    /\ UNCHANGED <<env, sync, inflight, retry, normalization_cache, redis, cache, catalog, pubmedCache, lqueue, lstream, lw, rdsVars, vs>>

\* DynamoDB's time-to-live on pubmed-cache: an item whose ttl is in the past
\* is deleted by the table, some time after it expired.
ExpirePubmed ==
    /\ \E k \in DOMAIN pubmedCache :
         /\ pubmedCache[k].ttl < now
         /\ pubmedCache' = Delete(pubmedCache, k)
    /\ last' = NoResp
    /\ UNCHANGED <<env, sync, inflight, retry, normalization_cache, tierVars, cache, catalog, lqueue, lstream, lw, rdsVars, vs>>

(***************************************************************************)
(* The LanceDB discovery worker                                            *)
(***************************************************************************)
\* pc: where the worker is in its pass; invalidation: what the cache
\* invalidation of the pass did ("deleted": an entry was under the key and is
\* gone, "absent": there was none, "failed": the delete raised).
\* pubmed_data and next_id: the locals of the pass and of insert_supplement.
LWIdle == [pc |-> "idle", key |-> NoEntry, query |-> <<>>, invalidation |-> "none",
           pubmed_data |-> NoEntry, next_id |-> 0]

\* update_discovery_status(pk, sk, status, error): update_item on the item;
\* when update_item raises (ok false) the error is printed (lines 193-194),
\* the item stays as it is and the table emits no change record.
UpdateDiscoveryStatus(q, key, status, error, ok) ==
    LET old == Get(q.queue, key)
        item == IF error # "none"
                THEN [old EXCEPT !.status = status, !.errorMessage = error]
                ELSE [old EXCEPT !.status = status]
    IN IF ok
       THEN [queue |-> Put(q.queue, key, item),
             stream |-> Append(q.stream, ChangeRecord(q.queue, key, item))]
       ELSE q

\* query_pubmed(supplement_name): a failed call counts as 0 studies, grade D.
QueryPubmed(oc) ==
    IF oc.kind = "count"
    THEN [study_count |-> oc.n, evidence_grade |-> Grade(oc.n)]
    ELSE [study_count |-> 0, evidence_grade |-> "D"]

InvalidateCased(table, supplement_name, ok) ==
    IF ok THEN Delete(table, Sha16(supplement_name)) ELSE table

\* invalidate_cache(supplement_name) of the worker: delete_item on the key of
\* the lowercased name; an error is swallowed.
InvalidateCache(table, supplement_name, ok) ==
    IF ok THEN Delete(table, Sha16(Lower(supplement_name))) ELSE table

\* Line 206: only INSERT events are processed.
LWTakes(rec) == rec.eventName = "INSERT"

\* lambda_handler of the worker, from the head of the stream to the
\* "processing" write (lines 204-219), or past a skipped record.
LWTake ==
    /\ lw.pc = "idle"
    /\ lstream # <<>>
    /\ LET rec == Head(lstream)
       IN IF LWTakes(rec)
          THEN \E upOk \in Outcomes("queueUpdate") :
               LET q2 == UpdateDiscoveryStatus([queue |-> lqueue, stream |-> Tail(lstream)],
                                               rec.key, "processing", "none", upOk)
               IN /\ lqueue' = q2.queue
                  /\ lstream' = q2.stream
                  /\ lw' = [LWIdle EXCEPT !.pc = "validating", !.key = rec.key,
                                           !.query = rec.image.query]
          ELSE /\ lstream' = Tail(lstream)
               /\ UNCHANGED <<lqueue, lw>>
    /\ last' = NoResp
    /\ UNCHANGED <<env, sync, inflight, retry, normalization_cache, tierVars, cache, catalog, pubmedCache, rdsVars, vs>>

\* The pass from query_pubmed into insert_supplement, up to the read of the
\* table (lines 221-234, 109-121): the item fails on too few studies, or when
\* the embedding or table.to_pandas() raises; else next_id is the highest id
\* read plus one.
LWFinish ==
    /\ lw.pc = "validating"
    /\ \E oc \in OracleOutcomes, readOk \in Outcomes("insert"),
          upOk \in Outcomes("queueUpdate") :
         LET pubmed_data == QueryPubmed(oc)
             failed(q2) ==
                 /\ lqueue' = q2.queue
                 /\ lstream' = q2.stream
                 /\ lw' = LWIdle
         IN IF pubmed_data.study_count < MIN_STUDIES
            THEN failed(UpdateDiscoveryStatus(LQ, lw.key, "failed", "Insufficient evidence", upOk))
            ELSE IF readOk
            THEN /\ lw' = [lw EXCEPT !.pc = "adding", !.pubmed_data = pubmed_data,
                                     !.next_id = NextId(catalog)]
                 /\ UNCHANGED <<lqueue, lstream>>
            ELSE failed(UpdateDiscoveryStatus(LQ, lw.key, "failed", "Insert failed", upOk))
    /\ last' = NoResp
    /\ UNCHANGED <<env, sync, inflight, retry, normalization_cache, tierVars, cache, catalog, pubmedCache, rdsVars, vs>>

\* table.add of insert_supplement with the id read before (lines 123-141),
\* and the "failed" write when it raises (line 244).
LWAdd ==
    /\ lw.pc = "adding"
    /\ \E insertOk \in Outcomes("insert"), upOk \in Outcomes("queueUpdate") :
         IF insertOk
         THEN /\ Len(catalog) < MaxCatalog
              /\ catalog' = Append(catalog,
                                   [id |-> lw.next_id, name |-> lw.query,
                                    evidence_grade |-> lw.pubmed_data.evidence_grade,
                                    study_count |-> lw.pubmed_data.study_count,
                                    search_count |-> 1, by |-> "worker",
                                    dim |-> MINILM_DIMENSIONS])
              /\ lw' = [lw EXCEPT !.pc = "inserted"]
              /\ UNCHANGED <<lqueue, lstream>>
         ELSE LET q2 == UpdateDiscoveryStatus(LQ, lw.key, "failed", "Insert failed", upOk)
              IN /\ lqueue' = q2.queue
                 /\ lstream' = q2.stream
                 /\ lw' = LWIdle
                 /\ UNCHANGED catalog
    /\ last' = NoResp
    /\ UNCHANGED <<env, sync, inflight, retry, normalization_cache, tierVars, cache, pubmedCache, rdsVars, vs>>

LWInvalidateRaises ==
    /\ lw.pc = "inserted"
    /\ \E ok \in Outcomes("cacheDelete") :
         IF ok
         THEN /\ cache' = InvalidateCache(cache, lw.query, ok)
              /\ lw' = [lw EXCEPT !.pc = "invalidated",
                                  !.invalidation = IF cache' # cache THEN "deleted"
                                                   ELSE "absent"]
              /\ UNCHANGED <<lqueue, lstream>>
         ELSE \E upOk \in Outcomes("queueUpdate") :
              LET q2 == UpdateDiscoveryStatus(LQ, lw.key, "failed", "Cache invalidation error", upOk)
              IN /\ lqueue' = q2.queue
                 /\ lstream' = q2.stream
                 /\ lw' = [LWIdle EXCEPT !.invalidation = "failed"]
                 /\ UNCHANGED cache
    /\ last' = NoResp
    /\ UNCHANGED <<env, sync, inflight, retry, normalization_cache, tierVars, catalog, pubmedCache, rdsVars, vs>>

\* Line 238: invalidate_cache(query) after the insert went through.
LWInvalidate ==
    /\ lw.pc = "inserted"
    /\ \E ok \in Outcomes("cacheDelete") :
         /\ cache' = InvalidateCache(cache, lw.query, ok)
         /\ lw' = [lw EXCEPT !.pc = "invalidated",
                             !.invalidation = IF ~ok THEN "failed"
                                              ELSE IF cache' # cache THEN "deleted"
                                              ELSE "absent"]
    /\ last' = NoResp
    /\ UNCHANGED <<env, sync, inflight, retry, normalization_cache, tierVars, catalog, pubmedCache, lqueue, lstream, rdsVars, vs>>

\* Line 241: the item is marked completed and the pass ends.
LWComplete ==
    /\ lw.pc = "invalidated"
    /\ \E upOk \in Outcomes("queueUpdate") :
         LET q2 == UpdateDiscoveryStatus(LQ, lw.key, "completed", "none", upOk)
         IN /\ lqueue' = q2.queue
            /\ lstream' = q2.stream
    /\ lw' = [LWIdle EXCEPT !.invalidation = lw.invalidation]
    /\ last' = NoResp
    /\ UNCHANGED <<env, sync, inflight, retry, normalization_cache, tierVars, cache, catalog, pubmedCache, rdsVars, vs>>

\* add_to_discovery_queue called on its own (the entry point the queue tests
\* drive).
LEnqueue(query) ==
    /\ env.deployed = "lancedb"
    /\ Len(lstream) < MaxStream
    /\ \E putOk \in Outcomes("queuePut") :
         LET q2 == AddToDiscoveryQueue(LQ, query, putOk)
         IN /\ lqueue' = q2.queue
            /\ lstream' = q2.stream
    /\ UNCHANGED <<env, sync, inflight, retry, normalization_cache, tierVars, cache, catalog, pubmedCache, lw, last, rdsVars, vs>>

(***************************************************************************)
(* The RDS pipeline: queue insert of search-api, and discovery-worker      *)
(***************************************************************************)
LOW_EVIDENCE_THRESHOLD == 5

\* hash_query of search-api.
HashQuery(query) == Sha16(Lower(query))

RQ == [queue |-> rqueue, stream |-> rstream]

\* The RDS worker between two invocations: the item it is at and what it
\* has of it, the records of its batch still to come, the keys of the
\* pending records of the batch and the results so far.
RWIdle ==
    [pc |-> "idle", key |-> NoEntry, item |-> NoEntry, study_count |-> 0, dim |-> 0,
     reason |-> "none", records |-> <<>>, taken |-> {}, results |-> <<>>]

\* add_to_discovery_queue(query, search_count) of search-api.  The item has
\* no retryCount, failureReason or validationStatus attribute: 0 and "none".
RAddToDiscoveryQueue(q, query, search_count, ok) ==
    LET key == HashQuery(query)
        item == [query |-> query, normalizedQuery |-> Strip(Lower(query)),
                 searchCount |-> search_count, priority |-> search_count,
                 status |-> "pending", retryCount |-> 0, failureReason |-> "none",
                 validationStatus |-> "none", pubmedStudyCount |-> -1]
    IN IF ok
       THEN [queue |-> Put(q.queue, key, item),
             stream |-> Append(q.stream, ChangeRecord(q.queue, key, item))]
       ELSE q

\* update_queue_item(item_id, updates): update_item SET of the given fields.
UpdateQueueItem(q, key, updates) ==
    LET old == IF key \in DOMAIN q.queue THEN q.queue[key] ELSE [f \in {} |-> 0]
        item == [f \in DOMAIN old \cup DOMAIN updates |->
                    IF f \in DOMAIN updates THEN updates[f] ELSE old[f]]
    IN [queue |-> Put(q.queue, key, item),
        stream |-> Append(q.stream, ChangeRecord(q.queue, key, item))]

\* validate_pubmed(query): (study_count, is_valid); an error counts as valid
\* with 0 studies.
ValidatePubmed(oc) ==
    IF oc.kind = "count"
    THEN [study_count |-> oc.n, is_valid |-> oc.n > 0]
    ELSE [study_count |-> 0, is_valid |-> TRUE]

ValidationStatus(study_count) ==
    IF study_count < LOW_EVIDENCE_THRESHOLD THEN "low-evidence" ELSE "valid"

\* retry_count + 1 of the failure branch (lines 330-337).
RetryNext(item) == item.retryCount + 1

\* Line 129: the length generate_embedding accepts.
RDS_EMBEDDING_DIMENSIONS == 384

\* generate_embedding(text) of discovery-worker: callOk tells whether the
\* embedding Lambda answers without an errorMessage, shape where its answer
\* holds the embedding and len the length of that embedding.  Line 128 reads
\* result.get('embedding'), the top level of the answer: an answer that
\* holds the embedding in its body gives None there, and None or an
\* embedding of another length than 384 raises (lines 129-130).
GenerateEmbedding(callOk, shape, len) ==
    LET read == IF shape = "flat" THEN len ELSE 0
    IN [raised |-> ~callOk \/ read = 0 \/ read # RDS_EMBEDDING_DIMENSIONS, dim |-> read]

\* generate_embedding(text) of search-api (lines 194-213): line 205 reads the
\* embedding from the body of the answer, json.loads(result.get('body',
\* '{}')); an answer without a body gives None, which raises (line 208).
SearchGenerateEmbedding(callOk, shape, len) ==
    LET read == IF shape = "body" THEN len ELSE 0
    IN [raised |-> ~callOk \/ read = 0 \/ read # RDS_EMBEDDING_DIMENSIONS, dim |-> read]

\* process_discovery_item(item), item being the NewImage of the record;
\* emb is what generate_embedding gives.
ProcessDiscoveryItem(q, rcat, key, item, oc, emb, insertOk) ==
    LET v == ValidatePubmed(oc)
        embedOk == ~emb.raised
        row == [id |-> Len(rcat) + 1, name |-> item.query,
                normalized_name |-> item.normalizedQuery,
                evidenceGrade |-> IF v.study_count < LOW_EVIDENCE_THRESHOLD THEN "D" ELSE "C",
                studyCount |-> v.study_count, search_count |-> 1, dim |-> emb.dim]
    IN IF ~v.is_valid
       THEN [q |-> UpdateQueueItem(q, key, [status |-> "completed", pubmedStudyCount |-> 0,
                                            validationStatus |-> "invalid"]),
             rcatalog |-> rcat, result |-> "completed"]
       ELSE IF embedOk /\ insertOk
       THEN [q |-> UpdateQueueItem(q, key, [status |-> "completed",
                                            pubmedStudyCount |-> v.study_count,
                                            validationStatus |-> ValidationStatus(v.study_count)]),
             rcatalog |-> Append(rcat, row), result |-> "completed"]
       ELSE [q |-> UpdateQueueItem(q, key, [status |-> "failed",
                                            failureReason |-> IF embedOk THEN "insert" ELSE "embedding",
                                            retryCount |-> RetryNext(item)]),
             rcatalog |-> rcat, result |-> "failed"]

TakeAnyEvent(rec) == TRUE

\* The lengths of the embedding in the answer of the function configured as
\* EMBEDDING_LAMBDA_ARN; env.embedder tells where the answer holds it: in its
\* body, as the repository's embedding-generator answers (lines 125-134 of
\* its lambda_handler), or at top level.
EmbeddingLengths ==
    IF "embed" \in env.faults
    THEN {0, RDS_EMBEDDING_DIMENSIONS, EMBEDDING_DIMENSIONS}
    ELSE {RDS_EMBEDDING_DIMENSIONS}

\* Lines 357-362: INSERT and MODIFY events whose new image is pending.
RWTakes(rec) == rec.eventName \in {"INSERT", "MODIFY"} /\ rec.image.status = "pending"

\* add_to_discovery_queue(query, 1), the call of search-api's handler.
REnqueue(query) ==
    /\ env.deployed = "rds"
    /\ Len(rstream) + (IF rw.pc = "idle" THEN 0 ELSE 1) < MaxStream
    /\ \E putOk \in Outcomes("queuePut") :
         LET q2 == RAddToDiscoveryQueue(RQ, query, 1, putOk)
         IN /\ rqueue' = q2.queue
            /\ rstream' = q2.stream
    /\ UNCHANGED <<env, sync, inflight, retry, normalization_cache, tierVars, lanceVars, rcatalog, rw,
                   vs>>

\* process_discovery_item(item) where update_queue_item can raise: writeOk is
\* the update_item of the try block (the "completed" write), failWriteOk the
\* one of the except clause (the "failed" write, lines 325-344).  A raise in
\* the try block goes to the except clause, after whatever the try block has
\* done; a raise in the except clause leaves process_discovery_item.
ProcessDiscoveryItemWrites(q, rcat, key, item, oc, emb, insertOk, writeOk, failWriteOk) ==
    LET p == ProcessDiscoveryItem(q, rcat, key, item, oc, emb, insertOk)
        failed == UpdateQueueItem(q, key, [status |-> "failed",
                                           failureReason |-> "update_item",
                                           retryCount |-> RetryNext(item)])
    IN IF p.result = "completed" /\ writeOk
       THEN [raised |-> FALSE, q |-> p.q, rcatalog |-> p.rcatalog, result |-> "completed"]
       ELSE IF ~failWriteOk
       THEN [raised |-> TRUE, q |-> q, rcatalog |-> p.rcatalog, result |-> "none"]
       ELSE [raised |-> FALSE, q |-> IF p.result = "failed" THEN p.q ELSE failed,
             rcatalog |-> p.rcatalog, result |-> "failed"]

\* What one record's processing meets: the oracle's answer, the embedding,
\* the insert, and the two update_item calls.
RecordOutcomes ==
    [oc : OracleOutcomes, callOk : Outcomes("embed"), len : EmbeddingLengths,
     insertOk : Outcomes("insert"), writeOk : Outcomes("queueUpdate"),
     failWriteOk : Outcomes("queueUpdate")]

\* lambda_handler of discovery-worker for the record at the head of the
\* stream, up to the commit of insert_supplement (lines 290-316): a record
\* that is not an INSERT or MODIFY of a pending item is passed over; an item
\* the oracle has no study for, and one whose embedding or INSERT raised, get
\* their write of the queue item in the same step; an item whose row was
\* committed is held until that write.
RWTake ==
    /\ rstream # <<>>
    /\ rw.pc = "idle"
    /\ LET rec == Head(rstream)
       IN IF RWTakes(rec)
          THEN \E o \in RecordOutcomes :
                 LET emb == GenerateEmbedding(o.callOk, env.embedder, o.len)
                     v == ValidatePubmed(o.oc)
                     p == ProcessDiscoveryItemWrites(
                              [queue |-> rqueue, stream |-> Tail(rstream)], rcatalog,
                              rec.key, rec.image, o.oc, emb, o.insertOk, o.writeOk,
                              o.failWriteOk)
                 IN IF p.rcatalog # rcatalog
                    THEN /\ o.writeOk /\ o.failWriteOk
                         /\ Len(p.rcatalog) <= MaxCatalog
                         /\ rcatalog' = p.rcatalog
                         /\ rstream' = Tail(rstream)
                         /\ rw' = [RWIdle EXCEPT !.pc = "inserted", !.key = rec.key,
                                                   !.item = rec.image,
                                                   !.study_count = v.study_count]
                         /\ UNCHANGED rqueue
                    ELSE /\ rqueue' = p.q.queue
                         /\ rstream' = p.q.stream
                         /\ UNCHANGED <<rcatalog, rw>>
          ELSE /\ rstream' = Tail(rstream)
               /\ UNCHANGED <<rqueue, rcatalog, rw>>
    /\ UNCHANGED <<env, sync, inflight, retry, normalization_cache, tierVars, lanceVars, vs>>

\* Lines 318-344 for an item whose row is committed: invalidate_cache, whose
\* failure is swallowed, and update_queue_item to completed; when that
\* update_item raises the except clause writes failed, and when that raises
\* too the exception leaves the handler with the item as it was.
RWComplete ==
    /\ rw.pc = "inserted"
    /\ \E writeOk \in Outcomes("queueUpdate"), failWriteOk \in Outcomes("queueUpdate") :
         LET done == UpdateQueueItem(RQ, rw.key,
                                     [status |-> "completed",
                                      pubmedStudyCount |-> rw.study_count,
                                      validationStatus |-> ValidationStatus(rw.study_count)])
             failed == UpdateQueueItem(RQ, rw.key,
                                       [status |-> "failed", failureReason |-> "update_item",
                                        retryCount |-> RetryNext(rw.item)])
             q2 == IF writeOk THEN done ELSE IF failWriteOk THEN failed ELSE RQ
         IN /\ rqueue' = q2.queue
            /\ rstream' = q2.stream
    /\ rw' = RWIdle
    /\ UNCHANGED <<env, sync, inflight, retry, normalization_cache, tierVars, lanceVars, rcatalog,
                   vs>>

\* The most records the event source mapping hands to one invocation.
MaxBatch == 2

\* The keys of the records of a batch that lines 357-362 take.
TakenKeys(records) ==
    {records[i].key : i \in {j \in 1..Len(records) : RWTakes(records[j])}}

\* What remains the same while the worker runs over a batch.
batchRest ==
    <<env, sync, inflight, retry, normalization_cache, tierVars, cache, catalog, pubmedCache,
      lqueue, lstream, lw, vs>>

\* A record of the batch is done with the given result (line 363,
\* results.append): the loop goes on with the next record.
BatchAppend(result) ==
    [rw EXCEPT !.pc = "loop", !.key = NoEntry, !.item = NoEntry, !.study_count = 0,
               !.reason = "none", !.results = Append(rw.results, result)]

\* lambda_handler of discovery-worker is invoked with the first n records of
\* the stream as event['Records'] (lines 347-352).
BatchBegin ==
    /\ rw.pc = "idle"
    /\ \E n \in 1..MaxBatch :
         /\ n <= Len(rstream)
         /\ rw' = [RWIdle EXCEPT !.pc = "loop", !.records = SubSeq(rstream, 1, n),
                                 !.taken = TakenKeys(SubSeq(rstream, 1, n))]
         /\ rstream' = SubSeq(rstream, n + 1, Len(rstream))
    /\ UNCHANGED <<batchRest, rqueue, rcatalog, last>>

\* One turn of the loop over event['Records'] (lines 354-363) up to the
\* return of validate_pubmed (lines 268-275): a record that is not an INSERT
\* or MODIFY of a pending item is passed over; for the others
\* process_discovery_item reads the item from the record's NewImage and asks
\* the oracle.
BatchRecord ==
    /\ rw.pc = "loop"
    /\ rw.records # <<>>
    /\ LET rec == Head(rw.records)
       IN IF RWTakes(rec)
          THEN \E oc \in OracleOutcomes :
                 LET v == ValidatePubmed(oc)
                 IN rw' = [rw EXCEPT !.pc = IF v.is_valid THEN "embed" ELSE "invalid",
                                     !.key = rec.key, !.item = rec.image,
                                     !.study_count = v.study_count,
                                     !.records = Tail(rw.records)]
          ELSE rw' = [rw EXCEPT !.records = Tail(rw.records)]
    /\ UNCHANGED <<batchRest, rqueue, rstream, rcatalog, last>>

\* Lines 277-289: update_queue_item for an item the oracle has no study for.
\* update_queue_item has no try (lines 230-257): a raise of update_item goes
\* to the except clause of process_discovery_item.
BatchInvalid ==
    /\ rw.pc = "invalid"
    /\ \E writeOk \in Outcomes("queueUpdate") :
         IF writeOk
         THEN LET q2 == UpdateQueueItem(RQ, rw.key,
                                        [status |-> "completed", pubmedStudyCount |-> 0,
                                         validationStatus |-> "invalid"])
              IN /\ rqueue' = q2.queue
                 /\ rstream' = q2.stream
                 /\ rw' = BatchAppend("completed")
         ELSE /\ rw' = [rw EXCEPT !.pc = "except", !.reason = "update_item"]
              /\ UNCHANGED <<rqueue, rstream>>
    /\ UNCHANGED <<batchRest, rcatalog, last>>

\* Line 295: generate_embedding(normalized_query); its raise goes to the
\* except clause.
BatchEmbed ==
    /\ rw.pc = "embed"
    /\ \E callOk \in Outcomes("embed"), len \in EmbeddingLengths :
         LET emb == GenerateEmbedding(callOk, env.embedder, len)
         IN rw' = IF emb.raised
                  THEN [rw EXCEPT !.pc = "except", !.reason = "embedding"]
                  ELSE [rw EXCEPT !.pc = "insert", !.dim = emb.dim]
    /\ UNCHANGED <<batchRest, rqueue, rstream, rcatalog, last>>

\* Lines 298-304: insert_supplement, which commits the row (line 192) or
\* rolls back and raises (lines 197-200).
BatchInsert ==
    /\ rw.pc = "insert"
    /\ \E insertOk \in Outcomes("insert") :
         IF insertOk
         THEN /\ Len(rcatalog) < MaxCatalog
              /\ rcatalog' = Append(rcatalog,
                                    [id |-> Len(rcatalog) + 1, name |-> rw.item.query,
                                     normalized_name |-> rw.item.normalizedQuery,
                                     evidenceGrade |-> IF rw.study_count < LOW_EVIDENCE_THRESHOLD
                                                       THEN "D" ELSE "C",
                                     studyCount |-> rw.study_count, search_count |-> 1,
                                     dim |-> rw.dim])
              /\ rw' = [rw EXCEPT !.pc = "complete"]
         ELSE /\ rw' = [rw EXCEPT !.pc = "except", !.reason = "insert"]
              /\ UNCHANGED rcatalog
    /\ UNCHANGED <<batchRest, rqueue, rstream, last>>

\* Lines 307-316: invalidate_cache, whose failure is swallowed (lines
\* 205-227), and update_queue_item to completed.
BatchComplete ==
    /\ rw.pc = "complete"
    /\ \E writeOk \in Outcomes("queueUpdate") :
         IF writeOk
         THEN LET q2 == UpdateQueueItem(RQ, rw.key,
                                        [status |-> "completed",
                                         pubmedStudyCount |-> rw.study_count,
                                         validationStatus |-> ValidationStatus(rw.study_count)])
              IN /\ rqueue' = q2.queue
                 /\ rstream' = q2.stream
                 /\ rw' = BatchAppend("completed")
         ELSE /\ rw' = [rw EXCEPT !.pc = "except", !.reason = "update_item"]
              /\ UNCHANGED <<rqueue, rstream>>
    /\ UNCHANGED <<batchRest, rcatalog, last>>

\* The except clause of process_discovery_item (lines 325-344): the retry
\* count is read from the record's image and update_queue_item writes
\* failed.  This call stands in no try, and neither does the call of
\* process_discovery_item in the loop (lines 354-363): when update_item
\* raises here the exception leaves lambda_handler, with the records that
\* remain never looked at and no result returned.
BatchFailed ==
    /\ rw.pc = "except"
    /\ \E failWriteOk \in Outcomes("queueUpdate") :
         IF failWriteOk
         THEN LET q2 == UpdateQueueItem(RQ, rw.key,
                                        [status |-> "failed", failureReason |-> rw.reason,
                                         retryCount |-> RetryNext(rw.item)])
              IN /\ rqueue' = q2.queue
                 /\ rstream' = q2.stream
                 /\ rw' = BatchAppend("failed")
                 /\ UNCHANGED last
         ELSE /\ rw' = RWIdle
              /\ last' = [NoResp EXCEPT !.source = "discovery-worker", !.status = 0,
                                        !.worker = [raised |-> TRUE, records |-> rw.taken,
                                                    results |-> rw.results]]
              /\ UNCHANGED <<rqueue, rstream>>
    /\ UNCHANGED <<batchRest, rcatalog>>

\* The end of the loop: the summary and the return of lambda_handler (lines
\* 365-380).
BatchReturn ==
    /\ rw.pc = "loop"
    /\ rw.records = <<>>
    /\ rw' = RWIdle
    /\ last' = [NoResp EXCEPT !.source = "discovery-worker", !.status = 200,
                              !.worker = [raised |-> FALSE, records |-> rw.taken,
                                          results |-> rw.results]]
    /\ UNCHANGED <<batchRest, rqueue, rstream, rcatalog>>

(***************************************************************************)
(* The multi-tier search handler (search-api): DynamoDB, Redis, Postgres    *)
(***************************************************************************)
MaxHits == 2

\* The supplements table at the start: the row insert_supplement of
\* discovery-worker wrote for a term with 120 studies (search_count 1).
RdsSeed ==
    << [id |-> 1, name |-> TxtNA, normalized_name |-> TxtNA, evidenceGrade |-> "C",
        studyCount |-> 120, search_count |-> 1, dim |-> RDS_EMBEDDING_DIMENSIONS] >>

\* The keys supplement:query:{hash} and supplement:count:{hash}.
RedisKey(kind, query_hash) == [kind |-> kind, hash |-> query_hash]

RedisLive(r, k) == k \in DOMAIN r /\ (r[k].expiresAt = -1 \/ r[k].expiresAt > now)

RedisCount(r, k) == IF RedisLive(r, k) THEN r[k].count ELSE 0

CacheSupplementPutSkipped(table, query_hash, supplement, putOk) == table

\* Lines 376-383 of cache_supplement: SETEX of the supplement in Redis.
CacheSupplementSetex(r, query_hash, supplement) ==
    Put(r, RedisKey("query", query_hash),
        [value |-> supplement, count |-> 0, expiresAt |-> now + CACHE_TTL_SECONDS])

\* Lines 386-399 of cache_supplement: put_item of the supplement in DynamoDB.
CacheSupplementPut(table, query_hash, supplement, putOk) ==
    IF putOk THEN Put(table, query_hash, CacheItem(supplement, supplement.embedding))
    ELSE table

\* The supplement a search returns for a row.
RowSupplement(row, similarity) ==
    [id |-> row.id, name |-> row.name, searchCount |-> row.search_count,
     similarity |-> similarity, embedding |-> <<>>]

\* UPDATE supplements SET search_count = search_count + 1 WHERE id = ...
Bump(rcat, id) ==
    [i \in 1..Len(rcat) |->
        IF rcat[i].id = id THEN [rcat[i] EXCEPT !.search_count = @ + 1] ELSE rcat[i]]

\* The SELECT of exact_name_search(query) (lines 236-251): a row whose name,
\* scientific name or common name is the query, letter case aside, or
\* NoEntry.
ExactNameSearch(rcat, query) ==
    LET query_lower == Strip(Lower(query))
        hits == {i \in 1..Len(rcat) :
                    Lower(rcat[i].name) = query_lower
                    \/ Lower(rcat[i].normalized_name) = query_lower}
    IN IF hits # {}
       THEN rcat[CHOOSE i \in hits : \A j \in hits : i <= j]
       ELSE NoEntry

\* The rows with their similarity to the query's embedding, best first.
RECURSIVE RdsRanked(_, _, _)
RdsRanked(term, rcat, left) ==
    IF left = {} THEN <<>>
    ELSE LET i == CHOOSE i \in left : \A j \in left :
                     \/ Sim(term, rcat[i].normalized_name) > Sim(term, rcat[j].normalized_name)
                     \/ Sim(term, rcat[i].normalized_name) = Sim(term, rcat[j].normalized_name)
                        /\ i <= j
         IN <<[id |-> rcat[i].id, name |-> rcat[i].name, search_count |-> rcat[i].search_count,
               sim |-> Sim(term, rcat[i].normalized_name)]>>
            \o RdsRanked(term, rcat, left \ {i})

\* The terms whose embedding vector_search is called with on its own, and
\* the supplements tables it is called over: no row, one, or two.
VSTerms == {<<"n">>, <<"m">>, TxtNA}
VSTables ==
    {<<>>, RdsSeed,
     Append(RdsSeed, [id |-> 2, name |-> <<"m">>, normalized_name |-> <<"m">>,
                      evidenceGrade |-> "D", studyCount |-> 3, search_count |-> 1,
                      dim |-> RDS_EMBEDDING_DIMENSIONS])}

\* vector_search(embedding) of search-api called on its own, up to the
\* fetchall of its SELECT (lines 297-335) over the supplements table as it
\* stands: None is returned at once, a row found is held for the UPDATE.
VSRds ==
    /\ vs.pc = "idle"
    /\ \E term \in VSTerms :
         LET rows == RdsRanked(term, rcatalog, DOMAIN rcatalog)
             found == RdsVectorSearch(rows)
         IN vs' = [VSIdle EXCEPT !.pc = IF found = NoEntry THEN "rds" ELSE "rds_update",
                                 !.lists = <<rows>>,
                                 !.out = IF found = NoEntry THEN <<>> ELSE <<found>>]
    /\ UNCHANGED <<env, sync, inflight, retry, normalization_cache, tierVars, lanceVars, rdsVars>>

\* Lines 350-365 of vector_search: the UPDATE of search_count for the row
\* found, the commit, and the return.
VSRdsUpdate ==
    /\ vs.pc = "rds_update"
    /\ rcatalog' = Bump(rcatalog, vs.out[1].id)
    /\ vs' = [vs EXCEPT !.pc = "rds"]
    /\ UNCHANGED <<env, sync, inflight, retry, normalization_cache, tierVars, lanceVars, rqueue,
                   rstream, rw>>

\* The invocation p of search-api's handler goes on at pc.
AGo(p, pc, resp, results) ==
    /\ inflight' = [inflight EXCEPT ![p] = [@ EXCEPT !.pc = pc, !.resp = resp,
                                                     !.results = results]]
    /\ last' = NoResp

\* The invocation p of search-api's handler answers resp and ends.
AReply(p, resp) ==
    /\ last' = resp
    /\ inflight' = [inflight EXCEPT ![p] = HIdle]

\* The stripped q of the invocation p and its hash.
AQuery(p) == Strip(inflight[p].raw)

AHash(p) == HashQuery(AQuery(p))

\* lambda_handler of search-api for a request with parameter q = raw, up to
\* the get_item of check_dynamodb_cache (lines 466-497, 101-124): the
\* validation of q,
\* the hash, and the read of the item; an error of get_item gives None (line
\* 151).  answered, prev and stood are those of HCheck.
ACheck(p, raw) ==
    LET query == Strip(raw)
        query_hash == HashQuery(query)
        follows == /\ last.status = 200 /\ ~last.cacheHit /\ ~last.writeFault
                   /\ Lower(Strip(last.q)) = Lower(query)
        r0 == [NoResp EXCEPT !.q = raw, !.key = query_hash,
                             !.stood = IF follows /\ last.stored
                                       THEN last.supplement ELSE NoEntry,
                             !.answered = IF follows THEN last.supplement ELSE NoEntry,
                             !.prev = IF follows THEN last.q ELSE <<>>]
    IN /\ env.deployed = "rds"
       /\ inflight[p].pc \in {"idle", "done"}
       /\ IF query = <<>> \/ Len(query) > MaxQueryLen
          THEN AReply(p, [r0 EXCEPT !.status = 400])
          ELSE \E readOk \in Outcomes("cacheRead") :
               LET r1 == [r0 EXCEPT !.readFault = ~readOk, !.tiers = <<"dynamodb">>]
                   h == [HIdle EXCEPT !.raw = raw]
               IN /\ last' = NoResp
                  /\ IF readOk /\ query_hash \in DOMAIN cache
                     THEN /\ cache[query_hash].searchCount < MaxHits
                          /\ inflight' = [inflight EXCEPT ![p] =
                                [h EXCEPT !.pc = "a_update",
                                          !.resp = [r1 EXCEPT
                                             !.supplement = cache[query_hash].supplementData,
                                             !.expiry = cache[query_hash].ttl,
                                             !.readAt = now]]]
                     ELSE inflight' = [inflight EXCEPT ![p] =
                                [h EXCEPT !.pc = "a_redis", !.resp = r1]]
       /\ UNCHANGED <<env, sync, retry, normalization_cache, tierVars, cache, catalog,
                      pubmedCache, lqueue, lstream, lw, rdsVars, vs>>

\* Lines 129-146 of check_dynamodb_cache: the update_item of lastAccessed and
\* searchCount of the item read, and the 200 of lambda_handler (lines
\* 498-513).  update_item raises when the table fails and when the item is
\* gone (searchCount + :inc has no operand); check_dynamodb_cache then gives
\* None and the handler goes on to Redis.
AUpdate(p) ==
    LET h == inflight[p]
        query_hash == AHash(p)
    IN /\ h.pc = "a_update"
       /\ \E updateOk \in Outcomes("cacheWrite") :
            IF updateOk /\ query_hash \in DOMAIN cache
            THEN /\ cache' = [cache EXCEPT ![query_hash].lastAccessed = now,
                                           ![query_hash].searchCount = @ + 1]
                 /\ AReply(p, [h.resp EXCEPT !.status = 200, !.cacheHit = TRUE,
                                             !.source = "dynamodb"])
            ELSE /\ cache' = cache
                 /\ AGo(p, "a_redis", [h.resp EXCEPT !.readFault = TRUE,
                                                     !.supplement = NoEntry], <<>>)
       /\ UNCHANGED <<env, sync, retry, normalization_cache, tierVars, catalog, pubmedCache,
                      lqueue, lstream, lw, rdsVars, vs>>

\* check_redis_cache(query_hash) up to its GET (lines 163-168); an error
\* gives None (lines 189-191).
ARedisGet(p) ==
    LET h == inflight[p]
        k == RedisKey("query", AHash(p))
    IN /\ h.pc = "a_redis"
       /\ \E getOk \in Outcomes("redis") :
            LET r2 == [h.resp EXCEPT !.redisFault = ~getOk, !.tiers = Append(@, "redis")]
            IN IF getOk /\ RedisLive(redis, k)
               THEN /\ RedisCount(redis, RedisKey("count", AHash(p))) < MaxHits
                    /\ AGo(p, "a_incr", [r2 EXCEPT !.supplement = redis[k].value,
                                                   !.expiry = redis[k].expiresAt,
                                                   !.readAt = now], <<>>)
               ELSE AGo(p, "a_exact", r2, <<>>)
       /\ UNCHANGED <<env, sync, retry, normalization_cache, tierVars, cache, catalog,
                      pubmedCache, lqueue, lstream, lw, rdsVars, vs>>

\* Lines 172-184 of check_redis_cache: the INCR of the count key after a hit;
\* an error gives None and the handler goes on to the exact-name match.
ARedisIncr(p) ==
    LET h == inflight[p]
        c == RedisKey("count", AHash(p))
    IN /\ h.pc = "a_incr"
       /\ \E incrOk \in Outcomes("redis") :
            IF incrOk
            THEN /\ redis' = Put(redis, c, [value |-> NoEntry, count |-> RedisCount(redis, c) + 1,
                                            expiresAt |-> -1])
                 /\ AGo(p, "a_setex", [h.resp EXCEPT !.cacheHit = TRUE, !.source = "redis"],
                        <<>>)
            ELSE /\ redis' = redis
                 /\ AGo(p, "a_exact", [h.resp EXCEPT !.redisFault = TRUE,
                                                     !.supplement = NoEntry], <<>>)
       /\ UNCHANGED <<env, sync, retry, normalization_cache, now, cache, catalog, pubmedCache,
                      lqueue, lstream, lw, rdsVars, vs>>

\* exact_name_search(query) up to the fetchone of its SELECT (lines 226-254);
\* an error gives None (lines 292-294).
AExact(p) ==
    LET h == inflight[p]
        rx == [h.resp EXCEPT !.tiers = Append(@, "exact")]
    IN /\ h.pc = "a_exact"
       /\ \E exactOk \in Outcomes("postgres") :
            LET row == IF exactOk THEN ExactNameSearch(rcatalog, AQuery(p)) ELSE NoEntry
            IN IF row # NoEntry
               THEN /\ row.search_count <= MaxHits
                    /\ AGo(p, "a_exact_update",
                           [rx EXCEPT !.supplement = RowSupplement(row, 1000)], <<row>>)
               ELSE AGo(p, "a_embed", rx, <<>>)
       /\ UNCHANGED <<env, sync, retry, normalization_cache, tierVars, cache, catalog,
                      pubmedCache, lqueue, lstream, lw, rdsVars, vs>>

\* Lines 272-288 of exact_name_search: the UPDATE of search_count and the
\* commit; an error gives None and the handler goes on to the embedding.
AExactUpdate(p) ==
    LET h == inflight[p]
    IN /\ h.pc = "a_exact_update"
       /\ \E updateOk \in Outcomes("postgres") :
            IF updateOk
            THEN /\ rcatalog' = Bump(rcatalog, h.results[1].id)
                 /\ AGo(p, "a_setex", [h.resp EXCEPT !.source = "postgres-exact"], <<>>)
            ELSE /\ rcatalog' = rcatalog
                 /\ AGo(p, "a_embed", [h.resp EXCEPT !.supplement = NoEntry], <<>>)
       /\ UNCHANGED <<env, sync, retry, normalization_cache, tierVars, cache, catalog,
                      pubmedCache, lqueue, lstream, lw, rqueue, rstream, rw, vs>>

\* Line 564: generate_embedding(query), the invoke of the embedding Lambda; a
\* raise is answered 500 (lines 609-624).
AEmbed(p) ==
    LET h == inflight[p]
    IN /\ h.pc = "a_embed"
       /\ \E callOk \in Outcomes("embed"), len \in EmbeddingLengths :
            IF SearchGenerateEmbedding(callOk, env.embedder, len).raised
            THEN AReply(p, [h.resp EXCEPT !.status = 500])
            ELSE AGo(p, "a_vector", h.resp, <<>>)
       /\ UNCHANGED <<env, sync, retry, normalization_cache, tierVars, cache, catalog,
                      pubmedCache, lqueue, lstream, lw, rdsVars, vs>>

\* vector_search(embedding) up to the fetchall of its SELECT (lines 306-334);
\* an error is raised again (lines 367-369) and answered 500.
AVector(p) ==
    LET h == inflight[p]
        r3 == [h.resp EXCEPT !.searches = 1, !.tiers = Append(@, "vector")]
    IN /\ h.pc = "a_vector"
       /\ \E searchOk \in Outcomes("postgres") :
            IF ~searchOk
            THEN AReply(p, [r3 EXCEPT !.status = 500])
            ELSE LET row == RdsVectorSearch(RdsRanked(AQuery(p), rcatalog, DOMAIN rcatalog))
                 IN IF row # NoEntry
                    THEN /\ row.search_count <= MaxHits
                         /\ AGo(p, "a_vector_update",
                                [r3 EXCEPT !.supplement = RowSupplement(row, row.sim)], <<row>>)
                    ELSE AGo(p, "a_enqueue", r3, <<>>)
       /\ UNCHANGED <<env, sync, retry, normalization_cache, tierVars, cache, catalog,
                      pubmedCache, lqueue, lstream, lw, rdsVars, vs>>

\* Lines 350-365 of vector_search: the UPDATE of search_count and the commit;
\* then line 570, supplement['embedding'] = embedding.  An error is raised
\* again and answered 500.
AVectorUpdate(p) ==
    LET h == inflight[p]
    IN /\ h.pc = "a_vector_update"
       /\ \E updateOk \in Outcomes("postgres") :
            IF updateOk
            THEN /\ rcatalog' = Bump(rcatalog, h.results[1].id)
                 /\ AGo(p, "a_setex", [h.resp EXCEPT !.source = "postgres",
                                                     !.supplement.embedding = AQuery(p)],
                        <<>>)
            ELSE /\ rcatalog' = rcatalog
                 /\ AReply(p, [h.resp EXCEPT !.status = 500, !.supplement = NoEntry])
       /\ UNCHANGED <<env, sync, retry, normalization_cache, tierVars, cache, catalog,
                      pubmedCache, lqueue, lstream, lw, rqueue, rstream, rw, vs>>

\* cache_supplement(query_hash, supplement) up to its SETEX (lines 374-383);
\* an error ends cache_supplement, is swallowed (lines 401-403), and the
\* handler answers 200 with the supplement.
ASetex(p) ==
    LET h == inflight[p]
    IN /\ h.pc = "a_setex"
       /\ \E setOk \in Outcomes("redis") :
            IF setOk
            THEN /\ redis' = CacheSupplementSetex(redis, AHash(p), h.resp.supplement)
                 /\ AGo(p, "a_put", h.resp, <<>>)
            ELSE /\ redis' = redis
                 /\ AReply(p, [h.resp EXCEPT !.status = 200, !.writeFault = TRUE,
                                             !.replaced = Get(cache, AHash(p))])
       /\ UNCHANGED <<env, sync, retry, normalization_cache, now, cache, catalog, pubmedCache,
                      lqueue, lstream, lw, rdsVars, vs>>

\* Lines 386-399 of cache_supplement: the put_item of the item, whose error
\* is swallowed, and the 200 of lambda_handler.
APut(p) ==
    LET h == inflight[p]
    IN /\ h.pc = "a_put"
       /\ \E putOk \in Outcomes("cacheWrite") :
            /\ cache' = CacheSupplementPut(cache, AHash(p), h.resp.supplement, putOk)
            /\ AReply(p, [h.resp EXCEPT !.status = 200, !.stored = putOk,
                                        !.writeFault = ~putOk,
                                        !.replaced = Get(cache, AHash(p))])
       /\ UNCHANGED <<env, sync, retry, normalization_cache, tierVars, catalog, pubmedCache,
                      lqueue, lstream, lw, rdsVars, vs>>

\* Lines 592-607: add_to_discovery_queue(query, 1), whose error is swallowed,
\* and the 404.
AEnqueue(p) ==
    LET h == inflight[p]
    IN /\ h.pc = "a_enqueue"
       /\ \E putOk \in Outcomes("queuePut") :
            LET q2 == RAddToDiscoveryQueue(RQ, AQuery(p), 1, putOk)
            IN /\ putOk => Len(rstream) < MaxStream
               /\ rqueue' = q2.queue
               /\ rstream' = q2.stream
               /\ AReply(p, [h.resp EXCEPT !.status = 404, !.source = "discovery",
                                           !.enqueues = 1, !.queued = putOk])
       /\ UNCHANGED <<env, sync, retry, normalization_cache, tierVars, cache, catalog,
                      pubmedCache, lqueue, lstream, lw, rcatalog, rw, vs>>

(***************************************************************************)
(* The special operations of the LanceDB handler: reindex, index_from_s3   *)
(***************************************************************************)
\* Lines 500-509 of index_from_s3_handler: the grade of a study count
\* estimate.
IndexGrade(study_count) ==
    IF study_count >= 1000 THEN "A"
    ELSE IF study_count >= 500 THEN "B"
    ELSE IF study_count >= 100 THEN "C"
    ELSE IF study_count >= 50 THEN "D"
    ELSE "E"

\* The JSON files of supplements index_from_s3 is run on.
S3Files ==
    {<<[name |-> <<"n">>, study_count_estimate |-> 60]>>,
     <<[name |-> TxtNA, study_count_estimate |-> 1000],
       [name |-> <<"z">>, study_count_estimate |-> 10]>>}

\* The loop of index_from_s3_handler (lines 490-540): the records of the
\* supplements whose embedding did not raise, each with the position of its
\* supplement in the file as id.
RECURSIVE IndexRecords(_, _, _)
IndexRecords(supplements, idx, failed) ==
    IF idx > Len(supplements) THEN <<>>
    ELSE (IF idx \in failed THEN <<>>
          ELSE <<[id |-> idx, name |-> supplements[idx].name,
                  evidence_grade |-> IndexGrade(supplements[idx].study_count_estimate),
                  study_count |-> supplements[idx].study_count_estimate,
                  search_count |-> 0, by |-> "s3", dim |-> EMBEDDING_DIMENSIONS]>>)
         \o IndexRecords(supplements, idx + 1, failed)

\* What create_table does when given no record: it raises or creates an
\* empty table.
EmptyCreateOutcomes == {"raised", "created"}

\* lambda_handler for an event with action index_from_s3 (lines 649-650,
\* 443-629): the file is read from S3, every supplement whose embedding call
\* goes through becomes a record, create_table(mode="overwrite") replaces
\* the table by these records, and a test search follows.  Every exception
\* but those of the loop is answered 500.
IndexFromS3(p, supplements) ==
    /\ env.deployed = "lancedb"
    /\ inflight[p].pc \in {"idle", "done"}
    /\ sync[p].pc = "idle"
    /\ \E getOk \in Outcomes("s3"), createOk \in Outcomes("insert"),
          testOk \in Outcomes("embed"), empty \in EmptyCreateOutcomes,
          failed \in (IF "embed" \in env.faults THEN SUBSET (1..Len(supplements)) ELSE {{}}) :
         LET records == IndexRecords(supplements, 1, failed)
             created == getOk /\ createOk /\ (records # <<>> \/ empty = "created")
         IN /\ catalog' = IF created THEN records ELSE catalog
            /\ last' = [NoResp EXCEPT !.source = "index_from_s3",
                                      !.status = IF created /\ testOk THEN 200 ELSE 500,
                                      !.processed = IF created /\ testOk THEN Len(records)
                                                    ELSE -1]
    /\ UNCHANGED <<env, sync, inflight, retry, normalization_cache, tierVars, cache,
                   pubmedCache, lqueue, lstream, lw, rdsVars, vs>>

\* lambda_handler for an event with action reindex (lines 646-647), up to
\* old_table.to_pandas() of reindex_lancedb_handler (lines 310-330): the
\* records of the table as it stands; old_records[0] raises on a table
\* without records, which is answered 500.
ReindexRead(p) ==
    /\ env.deployed = "lancedb"
    /\ inflight[p].pc \in {"idle", "done"}
    /\ sync[p].pc = "idle"
    /\ IF catalog = <<>>
       THEN /\ last' = [NoResp EXCEPT !.source = "reindex", !.status = 500]
            /\ inflight' = [inflight EXCEPT ![p] = HIdle]
       ELSE /\ last' = NoResp
            /\ inflight' = [inflight EXCEPT ![p] = [HIdle EXCEPT !.pc = "reindex",
                                                                 !.results = catalog]]
    /\ UNCHANGED <<env, sync, retry, normalization_cache, tierVars, cache, catalog,
                   pubmedCache, lqueue, lstream, lw, rdsVars, vs>>

\* Lines 332-428 of reindex_lancedb_handler: a new embedding for every
\* record read, create_table(mode="overwrite") with the records read, and
\* the index, the verification and the test search.  An exception before
\* create_table leaves the table as it is; every exception is answered 500.
ReindexWrite(p) ==
    LET old_records == inflight[p].results
        new_records == [i \in 1..Len(old_records) |->
                           [old_records[i] EXCEPT !.dim = EMBEDDING_DIMENSIONS]]
    IN /\ inflight[p].pc = "reindex"
       /\ \E embedOk \in Outcomes("embed"), createOk \in Outcomes("insert"),
             testOk \in Outcomes("embed") :
            /\ catalog' = IF embedOk /\ createOk THEN new_records ELSE catalog
            /\ last' = [NoResp EXCEPT
                           !.source = "reindex",
                           !.status = IF embedOk /\ createOk /\ testOk THEN 200 ELSE 500,
                           !.processed = IF embedOk /\ createOk /\ testOk
                                         THEN Len(new_records) ELSE -1]
       /\ inflight' = [inflight EXCEPT ![p] = HIdle]
       /\ UNCHANGED <<env, sync, retry, normalization_cache, tierVars, cache, pubmedCache,
                      lqueue, lstream, lw, rdsVars, vs>>

(***************************************************************************)
(* Specifications                                                          *)
(***************************************************************************)
\* No call of a wrapped function is under way.  args are the arguments of
\* the call: the key for check_cache, the key, the payload and the embedding
\* for store_cache.
RetryIdle == [pc |-> "idle", func |-> "", args |-> NoEntry, retries |-> 0, backoff |-> 0,
              x |-> 0, calls |-> 0, raised |-> <<>>, slept |-> <<>>, outcome |-> NoEntry]

Quiet ==
    /\ cache = EmptyTable /\ catalog = SeedCatalog /\ pubmedCache = EmptyTable
    /\ lqueue = EmptyTable /\ lstream = <<>> /\ lw = LWIdle /\ last = NoResp
    /\ rqueue = EmptyTable /\ rstream = <<>> /\ rcatalog = <<>> /\ rw = RWIdle
    /\ vs = VSIdle
    /\ now = 0 /\ redis = EmptyTable
    /\ normalization_cache = EmptyTable
    /\ sync = NoSync /\ inflight = NoRequests /\ retry = RetryIdle

SearchCounts == {0, 3}
SearchFaults == {{"queuePut", "cacheWrite", "cacheDelete"}}

\* The LanceDB pipeline: requests to the search handler, and its worker.
Init ==
    /\ Quiet
    /\ env \in [dynamodb : {"boto3", "plain"}, embedder : {"body"}, deployed : {"lancedb"}, faults : SearchFaults, counts : {SearchCounts}]

Next ==
    \/ \E raw \in RawQueries : HCheck(1, raw, NoParam, NoParam)
    \/ HExpand(1)
    \/ HTerm(1)
    \/ HNotFound(1)
    \/ HStore(1)
    \/ PubmedRead(1)
    \/ PubmedAsk(1)
    \/ SyncRead(1)
    \/ SyncAdd(1)
    \/ LWTake
    \/ LWFinish
    \/ LWAdd
    \/ LWInvalidate
    \/ LWComplete

Spec == Init /\ [][Next]_vars

\* One run of vector_search over given per-term result lists, or one call
\* of search-api's vector_search over a supplements table of VSTables.
InitVS ==
    /\ cache = EmptyTable /\ catalog = SeedCatalog /\ pubmedCache = EmptyTable
    /\ lqueue = EmptyTable /\ lstream = <<>> /\ lw = LWIdle /\ last = NoResp
    /\ rqueue = EmptyTable /\ rstream = <<>> /\ rcatalog \in VSTables /\ rw = RWIdle
    /\ vs = VSIdle
    /\ now = 0 /\ redis = EmptyTable
    /\ normalization_cache = EmptyTable
    /\ sync = NoSync /\ inflight = NoRequests /\ retry = RetryIdle
    /\ env = [dynamodb |-> "boto3", embedder |-> "body", deployed |-> "lancedb", faults |-> {}, counts |-> {}]

VSCall ==
    /\ vs.pc = "idle"
    /\ \E lists \in VSInputs : vs' = [VSIdle EXCEPT !.pc = "loop", !.lists = lists]
    /\ UNCHANGED <<env, sync, inflight, retry, normalization_cache, tierVars, lanceVars, rdsVars>>

NextVS ==
    \/ VSCall
    \/ VSIterate
    \/ VSReturn
    \/ VSRds
    \/ VSRdsUpdate

SpecVS == InitVS /\ [][NextVS]_vars

\* try_sync_discovery called on its own, over the oracle counts around the
\* thresholds.
DiscCounts == {0, 2, 3, 9, 10, 49, 50, 99, 100}
DiscQueries == {<<"N">>, <<"z">>}

InitDisc ==
    /\ Quiet
    /\ env \in [dynamodb : {"boto3", "plain"}, embedder : {"body"}, deployed : {"lancedb"}, faults : {{}, {"oracle", "embed"}}, counts : {DiscCounts}]

NextDisc ==
    \/ \E query \in DiscQueries : SyncCall(1, query)
    \/ PubmedRead(1)
    \/ PubmedAsk(1)
    \/ SyncRead(1)
    \/ SyncAdd(1)

SpecDisc == InitDisc /\ [][NextDisc]_vars

\* The two discovery queues with their workers, either pipeline deployed.
EnqueueQueries == {<<"n">>, <<"N">>}
WorkerCounts == {0, 3}

InitWorkers ==
    /\ Quiet
    /\ env \in [dynamodb : {"boto3"}, embedder : {"body", "flat"}, deployed : {"lancedb", "rds"}, faults : {{}, {"insert", "embed", "oracle"}},
                 counts : {WorkerCounts}]

NextWorkers ==
    \/ \E query \in EnqueueQueries : LEnqueue(query)
    \/ LWTake
    \/ LWFinish
    \/ LWAdd
    \/ LWInvalidate
    \/ LWComplete
    \/ \E query \in EnqueueQueries : REnqueue(query)
    \/ RWTake
    \/ RWComplete

SpecWorkers == InitWorkers /\ [][NextWorkers]_vars

\* The stream hands every record to its worker, and a pass of the worker ends.
SpecWorkersFair ==
    SpecWorkers /\ WF_vars(LWTake) /\ WF_vars(LWFinish) /\ WF_vars(LWAdd)
                /\ WF_vars(LWInvalidate)
                /\ WF_vars(LWComplete) /\ WF_vars(RWTake) /\ WF_vars(RWComplete)

\* The two workers over oracle counts on both sides of the admission and
\* grading thresholds of try_sync_discovery.
AdmissionCounts == {1, 3, 100}

InitAdmission ==
    /\ Quiet
    /\ env \in [dynamodb : {"boto3"}, embedder : {"body", "flat"}, deployed : {"lancedb", "rds"}, faults : {{}, {"oracle"}},
                 counts : {AdmissionCounts}]

NextAdmission ==
    \/ \E query \in EnqueueQueries : LEnqueue(query)
    \/ LWTake
    \/ LWFinish
    \/ LWAdd
    \/ LWInvalidate
    \/ LWComplete
    \/ \E query \in EnqueueQueries : REnqueue(query)
    \/ RWTake
    \/ RWComplete

SpecAdmission == InitAdmission /\ [][NextAdmission]_vars

\* try_sync_discovery called by invocations that overlap, on an empty
\* catalog.
RaceCounts == {2, 3}
RaceQueries == {<<"z">>}

InitRace ==
    /\ cache = EmptyTable /\ catalog = <<>> /\ pubmedCache = EmptyTable
    /\ lqueue = EmptyTable /\ lstream = <<>> /\ lw = LWIdle /\ last = NoResp
    /\ rqueue = EmptyTable /\ rstream = <<>> /\ rcatalog = <<>> /\ rw = RWIdle
    /\ vs = VSIdle /\ now = 0 /\ redis = EmptyTable /\ normalization_cache = EmptyTable
    /\ sync = NoSync /\ inflight = NoRequests /\ retry = RetryIdle
    /\ env \in [dynamodb : {"boto3", "plain"}, embedder : {"body"}, deployed : {"lancedb"}, faults : {{}, {"embed", "queueUpdate"}}, counts : {RaceCounts}]

NextRace ==
    \/ \E p \in SyncCalls, query \in RaceQueries : SyncCall(p, query)
    \/ \E p \in SyncCalls : PubmedRead(p)
    \/ \E p \in SyncCalls : PubmedAsk(p)
    \/ \E p \in SyncCalls : SyncRead(p)
    \/ \E p \in SyncCalls : SyncAdd(p)
    \/ \E query \in RaceQueries : LEnqueue(query)
    \/ LWTake
    \/ LWFinish
    \/ LWAdd
    \/ LWInvalidate
    \/ LWComplete

SpecRace == InitRace /\ [][NextRace]_vars

\* Requests to the search handler that overlap, for a query the catalog
\* matches.
WriterQueries == {<<"n">>}

InitWriters ==
    /\ Quiet
    /\ env \in [dynamodb : {"boto3"}, embedder : {"body"}, deployed : {"lancedb"},
                faults : {{"cacheWrite"}}, counts : {{3}}]

NextWriters ==
    \/ \E p \in SyncCalls, raw \in WriterQueries : HCheck(p, raw, NoParam, NoParam)
    \/ \E p \in SyncCalls : HExpand(p)
    \/ \E p \in SyncCalls : HTerm(p)
    \/ \E p \in SyncCalls : HNotFound(p)
    \/ \E p \in SyncCalls : HStore(p)
    \/ \E p \in SyncCalls : PubmedRead(p)
    \/ \E p \in SyncCalls : PubmedAsk(p)
    \/ \E p \in SyncCalls : SyncRead(p)
    \/ \E p \in SyncCalls : SyncAdd(p)
    \/ \E query \in WriterQueries : LEnqueue(query)
    \/ LWTake
    \/ LWFinish
    \/ LWAdd
    \/ LWInvalidate
    \/ LWComplete

SpecWriters == InitWriters /\ [][NextWriters]_vars

\* discovery-worker invoked with batches of the stream of its queue, the
\* insert and the queue's update_item failing or not.
BatchQueries == {<<"n">>, <<"z">>}

InitBatch ==
    /\ Quiet
    /\ env \in [dynamodb : {"boto3"}, embedder : {"body", "flat"}, deployed : {"rds"}, faults : {{}, {"insert", "queueUpdate"}}, counts : {{0, 3}}]

NextBatch ==
    \/ \E query \in BatchQueries : REnqueue(query)
    \/ BatchBegin
    \/ BatchRecord
    \/ BatchInvalid
    \/ BatchEmbed
    \/ BatchInsert
    \/ BatchComplete
    \/ BatchFailed
    \/ BatchReturn

SpecBatch == InitBatch /\ [][NextBatch]_vars

\* Requests to the LanceDB search handler while the embedding service and
\* the cache write can fail.
PopulateQueries == {<<" ", "N">>, <<"n">>, <<"n", "a">>, <<"z">>}

InitPopulate ==
    /\ Quiet
    /\ env \in [dynamodb : {"boto3", "plain"}, embedder : {"body"}, deployed : {"lancedb"}, faults : {{"embed", "cacheWrite"}}, counts : {{0}}]

NextPopulate ==
    \/ \E raw \in PopulateQueries : HCheck(1, raw, NoParam, NoParam)
    \/ HExpand(1)
    \/ HTerm(1)
    \/ HNotFound(1)
    \/ HStore(1)
    \/ PubmedRead(1)
    \/ PubmedAsk(1)

SpecPopulate == InitPopulate /\ [][NextPopulate]_vars

\* Requests to the LanceDB search handler while the evidence oracle and the
\* queue store can fail.
OracleFaults == {{"oracle", "queuePut"}}

InitOracle ==
    /\ Quiet
    /\ env \in [dynamodb : {"boto3"}, embedder : {"body"}, deployed : {"lancedb"}, faults : OracleFaults, counts : {SearchCounts}]

NextOracle ==
    \/ \E raw \in RawQueries : HCheck(1, raw, NoParam, NoParam)
    \/ HExpand(1)
    \/ HTerm(1)
    \/ HNotFound(1)
    \/ HStore(1)
    \/ PubmedRead(1)
    \/ PubmedAsk(1)
    \/ SyncRead(1)
    \/ SyncAdd(1)

SpecOracle == InitOracle /\ [][NextOracle]_vars

\* The oracle cache called on its own: the oracle may answer differently
\* each time or fail, pubmed-cache may fail, time passes.
PubmedCounts == {2, 3}
PubmedFaults == {{"oracle", "pcacheRead", "pcacheWrite"}}

InitPubmed ==
    /\ Quiet
    /\ env \in [dynamodb : {"boto3"}, embedder : {"body"}, deployed : {"lancedb"}, faults : PubmedFaults, counts : {PubmedCounts}]

NextPubmed ==
    \/ \E query \in PubmedTerms : PubmedCall(1, query)
    \/ PubmedRead(1)
    \/ PubmedAsk(1)
    \/ PubmedTick
    \/ ExpirePubmed

SpecPubmed == InitPubmed /\ [][NextPubmed]_vars

\* Requests to the LanceDB search handler with every shape of q and of the
\* limit parameters.
LongQuery(n) == [i \in 1..n |-> "z"]

RequestQueries ==
    {<<>>, <<" ">>, <<" ", "N">>, LongQuery(MaxQueryLen), LongQuery(MaxQueryLen + 1),
     <<" ">> \o LongQuery(MaxQueryLen) \o <<" ">>}

LimitParams == {NoParam, Param(<<>>), Param(<<"3">>), Param(<<"2", ".", "5">>)}
TopKParams == {NoParam, Param(<<>>), Param(<<"x">>)}

InitRequests ==
    /\ Quiet
    /\ env \in [dynamodb : {"boto3"}, embedder : {"body"}, deployed : {"lancedb"}, faults : {{}}, counts : {SearchCounts}]

NextRequests ==
    \/ \E raw \in RequestQueries, top_k \in TopKParams, limitParam \in LimitParams :
          HCheck(1, raw, top_k, limitParam)
    \/ HExpand(1)
    \/ HTerm(1)
    \/ HNotFound(1)
    \/ HStore(1)
    \/ PubmedRead(1)
    \/ PubmedAsk(1)
    \/ SyncRead(1)
    \/ SyncAdd(1)

SpecRequests == InitRequests /\ [][NextRequests]_vars

\* Normalization called on its own, the LLM answering as usual or not.
NormalizeFaults == {{}, {"llm"}}

InitNormalize ==
    /\ Quiet
    /\ env \in [dynamodb : {"boto3"}, embedder : {"body"}, deployed : {"lancedb"}, faults : NormalizeFaults, counts : {SearchCounts}]

NextNormalize ==
    \/ \E query \in NormalizeQueries : Normalize(query)
    \/ ColdStart

SpecNormalize == InitNormalize /\ [][NextNormalize]_vars

\* Query expansion called on its own.
InitExpand ==
    /\ Quiet
    /\ env \in [dynamodb : {"boto3"}, embedder : {"body"}, deployed : {"lancedb"}, faults : {{}}, counts : {SearchCounts}]

NextExpand == \E query \in ExpandQueries : Expand(query)

SpecExpand == InitExpand /\ [][NextExpand]_vars

\* The cache adapters called on their own, under time and store failures.
CacheFaults == {{"cacheRead", "cacheWrite"}}

\* The (key, payload, embedding) triples of the direct calls.
\* The last one holds no float: a payload without similarity and an empty
\* embedding.
StoreInputs ==
    {<<HandlerKey(t), data, e>> : t \in CacheTexts, data \in CachePayloads, e \in CacheTexts}
    \cup {<<HandlerKey(<<"n">>),
            [id |-> 1, name |-> TxtNA, evidence_grade |-> "A", study_count |-> 120], <<>>>>}

InitCache ==
    /\ Quiet
    /\ env \in [dynamodb : {"boto3", "plain"}, embedder : {"body"}, deployed : {"lancedb"}, faults : CacheFaults, counts : {{0}}]

NextCache ==
    \/ \E in \in StoreInputs : StoreCacheCall(in[1], in[2], in[3])
    \/ \E key \in {HandlerKey(t) : t \in CacheTexts} : CheckCacheCall(key)
    \/ Tick
    \/ Expire

SpecCache == InitCache /\ [][NextCache]_vars

\* Either search handler serving requests while time passes, the cache
\* stores failing at will and DynamoDB deleting expired items.
LanceQueries == {<<" ", "N">>, <<"n">>}
TierQueries == {<<" ", "N", "A">>, <<"n", "a">>, <<"N">>}
TierTables ==
    {RdsSeed,
     <<[id |-> 1, name |-> <<"m">>, normalized_name |-> <<"m">>, evidenceGrade |-> "C",
        studyCount |-> 120, search_count |-> 1, dim |-> RDS_EMBEDDING_DIMENSIONS]>>}
TierFaults == {{"cacheRead", "cacheWrite", "redis"}}

InitTiers ==
    /\ catalog = SeedCatalog /\ pubmedCache = EmptyTable /\ cache = EmptyTable
    /\ lqueue = EmptyTable /\ lstream = <<>> /\ lw = LWIdle /\ last = NoResp
    /\ rqueue = EmptyTable /\ rstream = <<>> /\ rcatalog \in TierTables /\ rw = RWIdle
    /\ vs = VSIdle /\ now = 0 /\ redis = EmptyTable /\ normalization_cache = EmptyTable
    /\ sync = NoSync /\ inflight = NoRequests /\ retry = RetryIdle
    /\ env \in [dynamodb : {"boto3", "plain"}, embedder : {"body"}, deployed : {"lancedb", "rds"}, faults : TierFaults, counts : {{0}}]
    /\ env.deployed = "rds" => env.dynamodb = "boto3"
    /\ env.deployed = "lancedb" => rcatalog = RdsSeed

NextTiers ==
    \/ \E raw \in LanceQueries : HCheck(1, raw, NoParam, NoParam)
    \/ HExpand(1)
    \/ HTerm(1)
    \/ HNotFound(1)
    \/ HStore(1)
    \/ PubmedRead(1)
    \/ PubmedAsk(1)
    \/ \E raw \in TierQueries : ACheck(1, raw)
    \/ AUpdate(1)
    \/ ARedisGet(1)
    \/ ARedisIncr(1)
    \/ AExact(1)
    \/ AExactUpdate(1)
    \/ AEmbed(1)
    \/ AVector(1)
    \/ AVectorUpdate(1)
    \/ ASetex(1)
    \/ APut(1)
    \/ AEnqueue(1)
    \/ Tick
    \/ Expire

SpecTiers == InitTiers /\ [][NextTiers]_vars

\* Everything that writes a catalog.  The multi-tier handler: two
\* invocations at a time, each in its own container, so that every call of
\* a store by one may fall between two calls of the other.  The LanceDB
\* handler: synchronous discoveries, and its reindex and index_from_s3
\* operations run beside them.
InitCatalog ==
    /\ catalog = SeedCatalog /\ pubmedCache = EmptyTable /\ cache = EmptyTable
    /\ lqueue = EmptyTable /\ lstream = <<>> /\ lw = LWIdle /\ last = NoResp
    /\ rqueue = EmptyTable /\ rstream = <<>> /\ rcatalog \in TierTables /\ rw = RWIdle
    /\ vs = VSIdle /\ now = 0 /\ redis = EmptyTable /\ normalization_cache = EmptyTable
    /\ sync = NoSync /\ inflight = NoRequests /\ retry = RetryIdle
    /\ env \in [dynamodb : {"boto3"}, embedder : {"body"}, deployed : {"lancedb", "rds"},
                faults : {{}, {"postgres", "embed"}}, counts : {{3}}]
    /\ env.deployed = "lancedb" => rcatalog = RdsSeed

NextCatalog ==
    \/ \E p \in SyncCalls, raw \in TierQueries : ACheck(p, raw)
    \/ \E p \in SyncCalls : AUpdate(p)
    \/ \E p \in SyncCalls : ARedisGet(p)
    \/ \E p \in SyncCalls : ARedisIncr(p)
    \/ \E p \in SyncCalls : AExact(p)
    \/ \E p \in SyncCalls : AExactUpdate(p)
    \/ \E p \in SyncCalls : AEmbed(p)
    \/ \E p \in SyncCalls : AVector(p)
    \/ \E p \in SyncCalls : AVectorUpdate(p)
    \/ \E p \in SyncCalls : ASetex(p)
    \/ \E p \in SyncCalls : APut(p)
    \/ \E p \in SyncCalls : AEnqueue(p)
    \/ \E query \in RaceQueries : SyncCall(1, query)
    \/ PubmedRead(1)
    \/ PubmedAsk(1)
    \/ SyncRead(1)
    \/ SyncAdd(1)
    \/ \E file \in S3Files : IndexFromS3(2, file)
    \/ ReindexRead(2)
    \/ ReindexWrite(2)

SpecCatalog == InitCatalog /\ [][NextCatalog]_vars

(***************************************************************************)
(* Properties of vector_search (SpecVS)                                    *)
(***************************************************************************)
\* Top similarity of the i-th term's result list; a term without results has none.
TopOf(i) == IF vs.lists[i] = <<>> THEN 0 ELSE Top(vs.lists[i])

\* The first term whose top similarity is an excellent match, or the last term.
LastTried ==
    LET hits == {i \in 1..Len(vs.lists) : TopOf(i) >= ExcellentMatch}
    IN IF hits = {} THEN Len(vs.lists) ELSE CHOOSE i \in hits : \A j \in hits : i <= j

\* C10: vector_search tries the terms in the order given and stops after the
\* first term whose top similarity is >= 0.95; the list it keeps is the one of
\* the tried term with the highest top similarity, the earliest such term on a
\* tie; what it returns is that list filtered by the similarity threshold.
C10_OrderTieEarlyStop ==
    vs.pc = "done" =>
        LET tried == 1..LastTried
            scored == {i \in tried : TopOf(i) > 0}
        IN /\ vs.st.tried = [i \in tried |-> i]
           /\ IF scored = {}
              THEN vs.st.best = <<>>
              ELSE \E b \in scored :
                      /\ \A j \in scored : TopOf(b) > TopOf(j) \/ (TopOf(b) = TopOf(j) /\ b <= j)
                      /\ vs.st.best = vs.lists[b]
           /\ vs.out = FilterResults(vs.st.best)

\* Four terms, the first scoring 0.96: one embedding and one index query.
C10_Witness ==
    /\ vs.pc = "done"
    /\ Len(vs.lists) = 4
    /\ TopOf(1) = 960
    /\ vs.st.tried = <<1>>
    /\ vs.out = vs.lists[1]

\* The candidates of the result list the search chose: the best list of the
\* loop (LanceDB handler), the rows of the one query (multi-tier handler).
Chosen == IF vs.pc = "rds" THEN vs.lists[1] ELSE vs.st.best

Reaching(results) == SelectSeq(results, LAMBDA r : r.sim >= SIMILARITY_THRESHOLD)

\* C11: every match a vector search returns has similarity >= the threshold,
\* a candidate of the chosen list whose similarity is exactly the threshold is
\* kept, and the search returns nothing exactly when no candidate of the
\* chosen list reaches the threshold.  Stated of both handlers' searches.
C11_FilterAtThreshold ==
    vs.pc \in {"done", "rds"} =>
        /\ \A k \in 1..Len(vs.out) : vs.out[k].sim >= SIMILARITY_THRESHOLD
        /\ Reaching(Chosen) # <<>> => Reaching(Chosen)[1] \in {vs.out[k] : k \in 1..Len(vs.out)}
        /\ vs.out = <<>> <=> Reaching(Chosen) = <<>>

\* The multi-tier handler's search over one candidate at exactly 0.85: nothing
\* is returned.
C11_Witness ==
    /\ vs.pc = "rds"
    /\ Len(vs.lists[1]) = 1
    /\ vs.lists[1][1].sim = SIMILARITY_THRESHOLD
    /\ vs.out = <<>>

(***************************************************************************)
(* Properties of the search handler (Spec, SpecDisc)                       *)
(***************************************************************************)
\* C1: a request for q that follows a 200 answer with cacheHit false for the
\* same q, with nothing in between and the cache table failing neither the
\* write nor the read, is answered 200 with cacheHit true from the cache,
\* with the same supplement, and runs no expansion, no vector search and no
\* discovery.
C1_MissThenHit ==
    last.answered # NoEntry /\ last.prev = last.q /\ ~last.readFault =>
        /\ last.status = 200
        /\ last.cacheHit
        /\ last.source = "dynamodb"
        /\ last.supplement = last.answered
        /\ last.expands = 0
        /\ last.searches = 0
        /\ last.disc = NoEntry
        /\ last.enqueues = 0

\* The repeated request missed the cache and searched again: put_item had
\* raised TypeError for the floats of the first answer's entry, store_cache
\* had swallowed it, and the table, which never failed, holds no entry.
C1_Witness ==
    /\ last.q = <<" ", "N">>
    /\ last.answered # NoEntry /\ last.prev = last.q
    /\ ~last.readFault
    /\ TypedNumbers
    /\ last.status = 200
    /\ ~last.cacheHit
    /\ last.source = "lancedb"
    /\ last.searches >= 1
    /\ last.rejected
    /\ last.key \notin DOMAIN cache

\* The queue holds an item for query, in status pending.
PendingFor(query) ==
    LET k == QueueKey(query)
    IN k \in DOMAIN lqueue /\ lqueue[k].status = "pending" /\ lqueue[k].query = query

\* C2: whenever the handler answers 404, a pending queue item for the query
\* has been put; and a miss whose study count is 0 is answered 404 with
\* reason insufficient_studies and leaves a pending item.
C2_AlwaysQueued ==
    /\ last.status = 404 => PendingFor(Strip(last.q))
    /\ last.disc # NoEntry /\ last.disc.returned = 0 =>
          /\ last.status = 404
          /\ last.reason = "insufficient_studies"
          /\ PendingFor(Strip(last.q))

\* The study count 0 came from pubmed-cache as a decimal.Decimal: the queue
\* item was put, and the request was answered 500 because the 404 body with
\* that studyCount does not serialize.
C2_Witness ==
    /\ last.status = 500
    /\ last.disc # NoEntry
    /\ last.disc.returned = 0
    /\ last.disc.decimal
    /\ last.reason = "insufficient_studies"
    /\ last.enqueues = 1
    /\ last.queued
    /\ PendingFor(Strip(last.q))

\* C3: for a count c that the oracle returned, try_sync_discovery fails with
\* reason insufficient_studies, reports c and inserts nothing when
\* c < MIN_STUDIES; otherwise, its embedding call and table.add returning, it
\* succeeds and inserts exactly one record, graded A from 100, B from 50, C from 10, else D.
C3_ThresholdAndGrade ==
    last.disc # NoEntry /\ last.disc.returned >= 0 =>
        LET c == last.disc.returned
        IN IF c < MIN_STUDIES
           THEN /\ ~last.disc.success
                /\ last.disc.reason = "insufficient_studies"
                /\ last.disc.study_count = c
                /\ last.disc.inserted = <<>>
           ELSE ~last.disc.embedFailed /\ ~last.disc.addFailed =>
                /\ last.disc.success
                /\ last.disc.study_count = c
                /\ Len(last.disc.inserted) = 1
                /\ last.disc.inserted[1].study_count = c
                /\ last.disc.inserted[1].evidence_grade =
                      (IF c >= 100 THEN "A" ELSE IF c >= 50 THEN "B" ELSE IF c >= 10 THEN "C" ELSE "D")
                /\ last.disc.evidence_grade = last.disc.inserted[1].evidence_grade

C3_Witness ==
    /\ last.disc # NoEntry
    /\ last.disc.returned = 99
    /\ last.disc.success
    /\ Len(last.disc.inserted) = 1
    /\ last.disc.inserted[1].evidence_grade = "B"

(***************************************************************************)
(* Properties of the discovery queues and their workers (SpecWorkers)      *)
(***************************************************************************)
Terminal == {"completed", "failed"}

StatusOf(queue, k) == IF k \in DOMAIN queue THEN queue[k].status ELSE "absent"

\* The retry counter of an item; an item without the attribute reads as 0.
Retry(item) == IF "retryCount" \in DOMAIN item THEN item.retryCount ELSE 0

\* A record the claims call eligible: an insert or update whose new image is pending.
Eligible(rec) == rec.eventName \in {"INSERT", "MODIFY"} /\ rec.image.status = "pending"

\* Steps, as seen on the variables.
LPut == Len(lstream') = Len(lstream) + 1 /\ lstream'[Len(lstream')].image.status = "pending"
LWStarted == lw.pc = "idle" /\ lw'.pc = "validating"
LWSkipped == lw.pc = "idle" /\ lw'.pc = "idle" /\ lstream # <<>> /\ lstream' = Tail(lstream)
LWEnded == lw.pc \in {"validating", "adding", "invalidated"} /\ lw'.pc = "idle"
LWFailed == lw.pc \in {"validating", "adding"} /\ lw'.pc = "idle"
LWInserted == lw.pc = "adding" /\ lw'.pc = "inserted"
\* The RDS worker's steps: a take that ends in the terminal write at once (no
\* row committed), a take that commits the row, the terminal write after the
\* commit, and a take that skips the record.
RWWroteAtOnce ==
    /\ rw.pc = "idle" /\ rw'.pc = "idle"
    /\ rstream # <<>>
    /\ Len(rstream') = Len(rstream)
    /\ <<rqueue, rstream, rcatalog>>' # <<rqueue, rstream, rcatalog>>
RWCommitted == rw.pc = "idle" /\ rw'.pc = "inserted"
RWCompleted == rw.pc = "inserted" /\ rw'.pc = "idle"
RWStarted == RWWroteAtOnce \/ RWCommitted
RWProcessed == RWWroteAtOnce \/ RWCompleted
RWSkipped == rw.pc = "idle" /\ rw'.pc = "idle" /\ rstream # <<>> /\ rstream' = Tail(rstream)
\* The record the step is about: the one taken, or the one whose row was committed.
RWKey == IF rw.pc = "inserted" THEN rw.key ELSE Head(rstream).key
RWImage == IF rw.pc = "inserted" THEN rw.item ELSE Head(rstream).image

\* C4: every add_to_discovery_queue call leaves exactly one item for its
\* query, in status pending and with searchCount 1; and at all times the queue
\* holds at most one item per query, each with searchCount 1.
C4_OneItemPerQuery ==
    /\ [](\A k \in DOMAIN lqueue :
            /\ lqueue[k].searchCount = 1
            /\ Cardinality({j \in DOMAIN lqueue : lqueue[j].query = lqueue[k].query}) = 1)
    /\ [][LPut =>
            LET query == lstream'[Len(lstream')].image.query
                items == {j \in DOMAIN lqueue' : lqueue'[j].query = query}
            IN /\ Cardinality(items) = 1
               /\ \A j \in items : lqueue'[j].status = "pending" /\ lqueue'[j].searchCount = 1]_vars

\* Two calls for one query, the worker not having taken either record.
C4_Witness ==
    /\ Len(lstream) = 2
    /\ lstream[1].eventName = "INSERT"
    /\ lstream[2].eventName = "MODIFY"
    /\ lstream[1].key = lstream[2].key
    /\ lstream[2].image.status = "pending"
    /\ Cardinality(DOMAIN lqueue) = 1
    /\ lqueue[lstream[1].key].searchCount = 1

\* C5: every item a worker processes goes from pending to processing and
\* from there to completed or failed: no item gets a terminal status from a
\* status other than processing.
C5_ThroughProcessing ==
    [][/\ \A k \in DOMAIN lqueue :
            StatusOf(lqueue', k) \in Terminal /\ lqueue'[k].status # lqueue[k].status
                => lqueue[k].status = "processing"
       /\ \A k \in DOMAIN rqueue :
            StatusOf(rqueue', k) \in Terminal /\ rqueue'[k].status # rqueue[k].status
                => rqueue[k].status = "processing"]_vars

\* The RDS worker has taken the record of a pending item and is through with
\* it: the stream holds the one write it made, the terminal status, put
\* over pending; process_discovery_item has no write of processing.
C5_Witness ==
    /\ env.deployed = "rds"
    /\ rw.pc = "idle"
    /\ Len(rstream) = 1
    /\ rstream[1].eventName = "MODIFY"
    /\ rstream[1].image.status \in Terminal
    /\ rqueue[rstream[1].key] = rstream[1].image

\* C6: a pass that fails to add the item to the catalog sets status failed,
\* stores a reason and raises the retry counter by one.
C6_FailedReasonRetry ==
    [][/\ LWFailed =>
            /\ lqueue'[lw.key].status = "failed"
            /\ lqueue'[lw.key].errorMessage # "none"
            /\ Retry(lqueue'[lw.key]) = Retry(lqueue[lw.key]) + 1
       /\ RWWroteAtOnce =>
            /\ rqueue'[Head(rstream).key].status = "failed"
            /\ rqueue'[Head(rstream).key].failureReason # "none"
            /\ Retry(rqueue'[Head(rstream).key]) = Retry(rqueue[Head(rstream).key]) + 1]_vars

\* The LanceDB worker has failed to add an item to the catalog: the item is
\* failed with its errorMessage and has no retry counter, as before the
\* pass; update_discovery_status sets status, processedAt and errorMessage
\* only.
C6_Witness ==
    /\ env.deployed = "lancedb"
    /\ lw.pc = "idle"
    /\ \E k \in DOMAIN lqueue :
         /\ lqueue[k].status = "failed"
         /\ lqueue[k].errorMessage # "none"
         /\ Retry(lqueue[k]) = 0

\* C7: a worker that takes a record processes it if and only if the record is
\* an insert or update whose new image is pending; otherwise it skips it.
C7_ProcessIffPending ==
    [][/\ LWStarted \/ LWSkipped => (LWStarted <=> Eligible(Head(lstream)))
       /\ RWStarted \/ RWSkipped => (RWStarted <=> Eligible(Head(rstream)))]_vars

\* C8: an item in status pending is eventually completed or failed.
C8_PendingProcessed ==
    \A query \in EnqueueQueries :
        /\ StatusOf(lqueue, QueueKey(query)) = "pending"
              ~> StatusOf(lqueue, QueueKey(query)) \in Terminal
        /\ StatusOf(rqueue, HashQuery(query)) = "pending"
              ~> StatusOf(rqueue, HashQuery(query)) \in Terminal

\* C9 as stated: the status of a completed or failed item changes only by an
\* enqueue, and a record of a worker's own write starts no processing.
C9_TerminalUntilEnqueue ==
    [][/\ \A k \in DOMAIN lqueue :
            lqueue[k].status \in Terminal /\ lqueue'[k].status # lqueue[k].status
                => lqueue'[k].status = "pending"
       /\ \A k \in DOMAIN rqueue :
            rqueue[k].status \in Terminal /\ rqueue'[k].status # rqueue[k].status
                => rqueue'[k].status = "pending"
       /\ (LWStarted \/ LWSkipped) /\ Head(lstream).image.status # "pending" => LWSkipped
       /\ (RWStarted \/ RWSkipped) /\ Head(rstream).image.status # "pending" => RWSkipped]_vars

\* C9: a record whose new image is not pending, as those of the workers' own
\* writes are, starts no processing; the status of a completed or failed item
\* changes only by an enqueue or, in the RDS pipeline, by the processing of the
\* pending record of an enqueue made before the item became terminal.
C9_NoSelfTrigger ==
    [][/\ \A k \in DOMAIN lqueue :
            lqueue[k].status \in Terminal /\ lqueue'[k].status # lqueue[k].status
                => lqueue'[k].status = "pending"
       /\ \A k \in DOMAIN rqueue :
            rqueue[k].status \in Terminal /\ rqueue'[k].status # rqueue[k].status
                => \/ rqueue'[k].status = "pending"
                   \/ /\ RWProcessed
                      /\ RWKey = k
                      /\ RWImage.status = "pending"
       /\ (LWStarted \/ LWSkipped) /\ Head(lstream).image.status # "pending" =>
            LWSkipped /\ lqueue' = lqueue /\ catalog' = catalog
       /\ (RWStarted \/ RWSkipped) /\ Head(rstream).image.status # "pending" =>
            RWSkipped /\ rqueue' = rqueue /\ rcatalog' = rcatalog]_vars

\* An item processed to its end, and the record of that write taken and skipped.
C9_Witness ==
    /\ rstream = <<>>
    /\ \E k \in DOMAIN rqueue : rqueue[k].status = "completed" /\ rqueue[k].validationStatus = "low-evidence"

(***************************************************************************)
(* Properties of the caches (SpecCache)                                    *)
(***************************************************************************)
\* A step of store_cache that the table did not fail.
Stored == last'.source = "store_cache" /\ ~last'.writeFault

\* C12: check_cache(k) called right after a store_cache(k, p, e) returns p
\* (the table having failed neither call); the entry store_cache leaves
\* under k has payload p, embedding e and ttl equal to the time of the write
\* plus 604800 seconds, and the entries under the other keys are as before.
C12_StoreThenCheck ==
    /\ [](last.source = "check_cache" /\ last.answered # NoEntry /\ ~last.readFault
            => last.supplement = last.answered)
    /\ [][Stored =>
            /\ DOMAIN cache' = DOMAIN cache \cup {last'.key}
            /\ cache'[last'.key].supplementData = last'.supplement
            /\ cache'[last'.key].embedding = last'.embedding
            /\ cache'[last'.key].ttl = now + 604800
            /\ \A k \in DOMAIN cache \ {last'.key} : cache'[k] = cache[k]]_vars

\* A check right after a store of a payload with a similarity and of an
\* embedding, the table failing neither call: put_item had raised TypeError
\* for the floats, store_cache had swallowed it, and check_cache returns
\* None.
C12_Witness ==
    /\ last.source = "check_cache"
    /\ last.answered # NoEntry
    /\ "similarity" \in DOMAIN last.answered
    /\ ~last.readFault
    /\ TypedNumbers
    /\ last.supplement = NoEntry
    /\ last.key \notin DOMAIN cache

(***************************************************************************)
(* Properties of the handlers' caches under time (SpecTiers)               *)
(***************************************************************************)
\* The latest request was answered from a cache tier: last.expiry is the
\* expiry the entry had when the request read it, last.readAt the time of
\* that read.
HitAnswered == last.status = 200 /\ last.cacheHit

QueryKey(query_hash) == RedisKey("query", query_hash)

\* C13: a request answered from a cache tier leaves the expiry of the entry
\* it read as it was: when the request is answered, the ttl of the DynamoDB
\* item, or the expiry of the Redis key, is the one the request read.
C13_HitKeepsExpiry ==
    HitAnswered =>
        /\ (last.source = "dynamodb" /\ last.key \in DOMAIN cache) =>
              cache[last.key].ttl = last.expiry
        /\ (last.source = "redis" /\ QueryKey(last.key) \in DOMAIN redis) =>
              redis[QueryKey(last.key)].expiresAt = last.expiry

\* A request answered from Redis at a time later than the entry's write: the
\* Redis key now expires 7 days from the hit.
C13_Witness ==
    /\ last.status = 200
    /\ last.cacheHit
    /\ last.source = "redis"
    /\ now > 0
    /\ QueryKey(last.key) \in DOMAIN redis
    /\ redis[QueryKey(last.key)].expiresAt = now + CACHE_TTL_SECONDS
    /\ last.expiry < now + CACHE_TTL_SECONDS

\* C14: a request is answered from a cache tier only if the entry it read is
\* unexpired: the ttl of the DynamoDB item, or the expiry of the Redis key, is
\* not in the past at the time of the read.
C14_OnlyUnexpired ==
    HitAnswered =>
        /\ last.source = "dynamodb" => last.expiry >= last.readAt
        /\ last.source = "redis" => last.expiry > last.readAt

\* The multi-tier handler, its table under boto3's number rule, has answered
\* from an item whose ttl is in the past and which DynamoDB has not deleted
\* yet.
C14_Witness ==
    /\ TypedNumbers
    /\ env.deployed = "rds"
    /\ last.status = 200
    /\ last.cacheHit
    /\ last.key \in DOMAIN cache
    /\ cache[last.key].ttl < now
    /\ last.expiry < last.readAt
    /\ last.supplement = cache[last.key].supplementData

\* The request was answered 500 because the 404 body of a failed discovery
\* carried a study count read from pubmed-cache, which json.dumps does not
\* serialize.
StudyCountUnserialized ==
    /\ last.status = 500
    /\ last.disc # NoEntry
    /\ ~last.disc.success
    /\ last.disc.decimal
    /\ last.enqueues = 1

\* C15: a failure of a cache store never fails the request: the only requests
\* answered 500 are those of an unserialized study count, whatever the cache
\* stores did.  A request whose DynamoDB read raised is not answered from
\* DynamoDB and goes on: the LanceDB handler to its vector search, the
\* multi-tier handler to Redis and, if Redis misses or raises as well, to
\* Postgres.  A request whose cache write raised is still answered 200 with
\* the supplement found.
C15_CacheFailureHarmless ==
    /\ last.status = 500 => StudyCountUnserialized
    /\ last.readFault =>
          /\ last.source # "dynamodb"
          /\ env.deployed = "lancedb" => ~last.cacheHit /\ last.expands >= 1 /\ last.searches >= 1
    /\ last.redisFault =>
          /\ last.status \in {200, 404}
          /\ last.source \in {"postgres-exact", "postgres", "discovery"}
    /\ last.writeFault =>
          /\ last.status = 200
          /\ last.supplement # NoEntry

\* The multi-tier handler's read of a present entry raised, its search found
\* the supplement, the write raised, and the answer is 200; the table is
\* under boto3's number rule.
C15_Witness ==
    /\ TypedNumbers
    /\ env.deployed = "rds"
    /\ last.key \in DOMAIN cache
    /\ last.readFault
    /\ last.writeFault
    /\ last.status = 200
    /\ ~last.cacheHit
    /\ last.supplement # NoEntry

\* C16: after a request whose cache write the stores did not fail, the
\* DynamoDB entry for its key has the payload just written, searchCount
\* exactly 1 and ttl 7 days from the write, whatever entry was under the key
\* before.
C16_WriteReplaces ==
    last.status = 200 /\ (last.stored \/ last.rejected) =>
        /\ last.key \in DOMAIN cache
        /\ cache[last.key].supplementData = last.supplement
        /\ cache[last.key].searchCount = 1
        /\ cache[last.key].ttl = now + CACHE_TTL_SECONDS

\* The LanceDB handler has answered 200 with the supplement it found, the
\* table did not fail, and there is no entry under the key: put_item had
\* raised TypeError for the floats of the item, and store_cache swallowed it.
C16_Witness ==
    /\ env.deployed = "lancedb"
    /\ TypedNumbers
    /\ last.status = 200
    /\ last.matched
    /\ last.rejected
    /\ ~last.writeFault
    /\ ~last.stored
    /\ last.key \notin DOMAIN cache

\* The lowercased, trimmed form of a raw query.
NormalForm(raw) == Lower(Strip(raw))

\* A request that follows, with nothing in between, a request that found the
\* supplement and cached it, for a raw query with the same lowercased,
\* trimmed form, and whose cache read went through.
SameFormNext ==
    /\ last.status = 200 /\ ~last.cacheHit /\ last.stored
    /\ last'.status # 0
    /\ NormalForm(last'.q) = NormalForm(last.q)
    /\ ~last'.readFault

\* C17: the cache key of a request is the digest of the lowercased, trimmed
\* query, so a request whose raw query differs from the previous one only in
\* letter case or surrounding whitespace uses the same key and is answered
\* from the entry the previous request wrote.
C17_KeyOfNormalForm ==
    /\ [](last.status \in {200, 404} => last.key = Sha16(NormalForm(last.q)))
    /\ [](last.stood # NoEntry /\ ~last.readFault =>
            /\ last.key = Sha16(NormalForm(last.prev))
            /\ last.status = 200
            /\ last.cacheHit
            /\ last.source = "dynamodb"
            /\ last.supplement = last.stood)
    /\ [][SameFormNext =>
            /\ last'.key = last.key
            /\ last'.status = 200
            /\ last'.cacheHit
            /\ last'.source = "dynamodb"
            /\ last'.supplement = last.supplement]_vars

\* The request "na" answered by the multi-tier handler from the entry the
\* request " NA" wrote; the table is under boto3's number rule.
C17_Witness ==
    /\ TypedNumbers
    /\ env.deployed = "rds"
    /\ last.q = <<"n", "a">>
    /\ last.prev = <<" ", "N", "A">>
    /\ last.stood # NoEntry
    /\ last.status = 200
    /\ last.cacheHit
    /\ last.source = "dynamodb"
    /\ last.key = HashQuery(<<"n", "a">>)
    /\ last.supplement = cache[last.key].supplementData

(***************************************************************************)
(* Properties of the worker's cache invalidation (Spec)                    *)
(***************************************************************************)
LWInvalidated == lw.pc = "inserted" /\ lw'.pc = "invalidated"

\* The key the search handler reads and writes for the query of the item
\* the worker holds.
ServedKey == Sha16(Lower(Strip(lw.query)))

\* C18: the worker's invalidation for an item deletes the entry under the
\* key the search handler uses for the item's query, and nothing else; when
\* the delete went through no entry is left under that key, an entry comes
\* back under a key only by a request that found the supplement and cached
\* it, and a request is answered from the cache only while an entry is there.
C18_InvalidatesServedKey ==
    /\ [](last.cacheHit => last.key \in DOMAIN cache)
    /\ [][LWInvalidated /\ lw'.invalidation # "failed" =>
            /\ ServedKey \notin DOMAIN cache'
            /\ cache' = Delete(cache, ServedKey)]_vars
    /\ [][\A k \in DOMAIN cache' \ DOMAIN cache :
            last'.status = 200 /\ ~last'.cacheHit /\ last'.stored /\ last'.key = k]_vars

\* C18 as stated: after every invalidation of a pass no entry is left under
\* the handler's key for the item's query, whether or not the delete went
\* through.
C18_MissAfterCompletion ==
    [][LWInvalidated => ServedKey \notin DOMAIN cache']_vars

\* The worker has completed an item whose query had a cache entry: the entry
\* is gone.
C18_Witness ==
    /\ lw.pc = "idle"
    /\ lw.invalidation = "deleted"
    /\ cache = EmptyTable
    /\ \E k \in DOMAIN lqueue : lqueue[k].status = "completed" /\ lqueue[k].query = <<"N">>

LWCompleted == lw.pc = "invalidated" /\ lw'.pc = "idle"

WorkerRecord(query) ==
    \E i \in 1..Len(catalog) : catalog[i].by = "worker" /\ catalog[i].name = query

\* C19: the worker removes a cache entry only in the invalidation of a pass
\* whose insert has put the record into the catalog and whose item is not yet
\* completed; the invalidation changes neither the catalog nor the queue; when
\* it fails the cache is left as it was, the record stays, and the next step
\* of the pass marks the item completed as after a successful invalidation.
C19_InvalidationSwallowed ==
    /\ [](lw.pc \in {"inserted", "invalidated"} =>
            /\ WorkerRecord(lw.query)
            /\ lw.key \in DOMAIN lqueue
            /\ lqueue[lw.key].status # "completed")
    /\ [][(DOMAIN cache \ DOMAIN cache' # {}) => LWInvalidated]_vars
    /\ [][lw.pc = "inserted" /\ lw' # lw => LWInvalidated]_vars
    /\ [][lw.pc = "invalidated" /\ lw' # lw => LWCompleted]_vars
    /\ [][LWInvalidated =>
            /\ catalog' = catalog
            /\ lqueue' = lqueue
            /\ lw'.invalidation = "failed" => cache' = cache]_vars
    /\ [][LWCompleted =>
            /\ catalog' = catalog
            /\ cache' = cache
            /\ lqueue'[lw.key].status = "completed"
            /\ lqueue'[lw.key].errorMessage = lqueue[lw.key].errorMessage]_vars

\* A pass whose invalidation failed has ended: the stale entry is still in the
\* cache, the record is in the catalog and the item is completed.
C19_Witness ==
    /\ lw.pc = "idle"
    /\ lw.invalidation = "failed"
    /\ cache # EmptyTable
    /\ \E k \in DOMAIN lqueue :
         /\ lqueue[k].status = "completed"
         /\ WorkerRecord(lqueue[k].query)
         /\ Sha16(Lower(lqueue[k].query)) \in DOMAIN cache

(***************************************************************************)
(* Properties of synchronous discovery under a failing oracle (SpecOracle) *)
(***************************************************************************)
\* The response's call of try_sync_discovery asked the oracle and the oracle
\* failed or timed out.
OracleFailed(resp) == resp.disc # NoEntry /\ resp.disc.returned = -1

\* C20: when the oracle call of synchronous discovery fails or times out,
\* try_sync_discovery returns a failure with reason pubmed_timeout or error
\* and study count 0, the catalog is left as it was, and the handler calls
\* add_to_discovery_queue once and answers 404 with that reason; the item it
\* put, if the put went through, is pending in the queue.
C20_OracleFailureIs404 ==
    /\ [](OracleFailed(last) =>
            /\ ~last.disc.success
            /\ last.disc.reason \in {"pubmed_timeout", "error"}
            /\ last.disc.study_count = 0
            /\ last.disc.inserted = <<>>
            /\ last.status = 404
            /\ last.reason = last.disc.reason
            /\ last.enqueues = 1
            /\ last.queued =>
                 /\ QueueKey(Strip(last.q)) \in DOMAIN lqueue
                 /\ lqueue[QueueKey(Strip(last.q))].status = "pending")
    /\ [][\A p \in SyncCalls :
            sync[p].pc = "asking" /\ sync'[p].pc = "returned"
                /\ sync'[p].result.returned = -1 =>
                    catalog' = catalog /\ pubmedCache' = pubmedCache]_vars

\* A request whose oracle call timed out was answered 404 and its query is
\* pending in the queue.
C20_Witness ==
    /\ OracleFailed(last)
    /\ last.disc.reason = "pubmed_timeout"
    /\ last.status = 404
    /\ last.queued
    /\ \A i \in 1..Len(catalog) : catalog[i].by = "seed"

(***************************************************************************)
(* Properties of the oracle cache (SpecPubmed)                             *)
(***************************************************************************)
\* The latest call of get_pubmed_count_cached found a count for its term in
\* pubmed-cache.
PubmedHeld == last.pubmed # NoEntry /\ last.pubmed.held # -1

\* C21: a validation of a term whose count is in the oracle cache, when the
\* read of the cache goes through, returns that count without asking the
\* oracle and leaves the cache as it is; a read that fails with a ClientError
\* is followed by a call of the oracle, a read that fails otherwise ends the
\* validation with the exception, the oracle not asked; an item stays in the
\* cache for 30 days from its write and is written under the lowercased,
\* trimmed term, with the count the oracle returned; a failed oracle call
\* stores nothing.
C21_CountCachedThirtyDays ==
    /\ [](PubmedHeld /\ ~last.readFault =>
            /\ last.pubmed.raised = "no"
            /\ last.pubmed.count = last.pubmed.held
            /\ ~last.pubmed.asked
            /\ ~last.pubmed.wrote)
    /\ [](last.pubmed # NoEntry /\ last.pubmed.wrote =>
            /\ Strip(Lower(last.q)) \in DOMAIN pubmedCache
            /\ pubmedCache[Strip(Lower(last.q))] =
                 [count |-> last.pubmed.count, ttl |-> now + PUBMED_TTL_SECONDS])
    /\ [](last.pubmed # NoEntry /\ last.pubmed.read = "ClientError" => last.pubmed.asked)
    /\ [](last.pubmed # NoEntry /\ last.pubmed.read = "other" =>
            /\ last.pubmed.raised = "error"
            /\ ~last.pubmed.asked)
    /\ [](last.pubmed # NoEntry /\ last.pubmed.raised # "no" =>
            /\ last.pubmed.asked \/ last.pubmed.read = "other"
            /\ ~last.pubmed.wrote)
    /\ [][(last'.pubmed # NoEntry /\ ~last'.pubmed.wrote) => pubmedCache' = pubmedCache]_vars
    /\ [][\A k \in DOMAIN pubmedCache :
            now' <= pubmedCache[k].ttl => k \in DOMAIN pubmedCache']_vars
    /\ [](\A k \in DOMAIN pubmedCache :
            pubmedCache[k].ttl - PUBMED_TTL_SECONDS \in 0..now)

\* C21 as stated: every validation of a term whose count is in the oracle
\* cache returns it without asking the oracle, whether or not the read of the
\* cache goes through.
C21_NeverAsksAgain ==
    PubmedHeld => ~last.pubmed.asked /\ last.pubmed.count = last.pubmed.held

\* A term written as "N" is validated as " n" 30 days later, to the second: the
\* cached count is returned and the oracle is not asked.
C21_Witness ==
    /\ PubmedHeld
    /\ ~last.readFault
    /\ last.q = <<" ", "n">>
    /\ now = PUBMED_TTL_SECONDS
    /\ ~last.pubmed.asked
    /\ pubmedCache[<<"n">>].ttl = PUBMED_TTL_SECONDS

(***************************************************************************)
(* Properties of the embeddings of inserted records (SpecWorkers)          *)
(***************************************************************************)
\* C22: every record of the LanceDB catalog has an embedding of the length
\* of the table the search handler queries (EMBEDDING_DIMENSIONS), and every
\* record of the RDS catalog one of the length generate_embedding accepts.
C22_EmbeddingLengthConfigured ==
    /\ \A i \in 1..Len(catalog) : catalog[i].dim = EMBEDDING_DIMENSIONS
    /\ \A i \in 1..Len(rcatalog) : rcatalog[i].dim = RDS_EMBEDDING_DIMENSIONS

\* The LanceDB worker has inserted a record and completed its item: the
\* record's embedding has the length of the worker's model, not that of the
\* table.
C22_Witness ==
    /\ \E i \in 1..Len(catalog) :
         /\ catalog[i].by = "worker"
         /\ catalog[i].dim = MINILM_DIMENSIONS
         /\ catalog[i].dim # EMBEDDING_DIMENSIONS
    /\ \E k \in DOMAIN lqueue : lqueue[k].status = "completed"

(***************************************************************************)
(* Properties of request validation (SpecRequests)                         *)
(***************************************************************************)
\* The request's q is missing, empty or blank, or longer than 200 characters
\* after trimming.
BadQuery(raw) == Strip(raw) = <<>> \/ Len(Strip(raw)) > 200

\* The handler did nothing beyond answering.
NothingDone(resp) ==
    /\ resp.reads = 0
    /\ ~resp.cacheHit
    /\ resp.expands = 0
    /\ resp.searches = 0
    /\ resp.disc = NoEntry
    /\ resp.enqueues = 0

\* C23: a request whose q is missing, empty, blank or longer than 200
\* characters after trimming is answered 400 with no cache read, vector
\* search, discovery or enqueue, and leaves every table as it was; a request
\* whose q has 1 to 200 characters after trimming is never answered 400.
C23_QueryValidated ==
    /\ [](last.status # 0 /\ BadQuery(last.q) => last.status = 400 /\ NothingDone(last))
    /\ [](last.status # 0 /\ ~BadQuery(last.q) => last.status # 400)
    /\ [][last'.status = 400 =>
            /\ BadQuery(last'.q)
            /\ UNCHANGED <<cache, catalog, pubmedCache, lqueue, lstream>>]_vars

\* A q of 201 characters was refused and a q of 200 characters was not: it is
\* in the catalog.
C23_Witness ==
    /\ last.status = 400
    /\ Len(Strip(last.q)) = 201
    /\ NothingDone(last)
    /\ \E i \in 1..Len(catalog) : Len(catalog[i].name) = 200

\* C24: a request whose top_k or limit parameter is not an integer is
\* answered 400 without a cache read or a search.
C24_BadLimitIs400 ==
    last.limitRaised => last.status = 400 /\ NothingDone(last)

\* A request with limit=x and a valid q was answered 500, with no cache read
\* or search.
C24_Witness ==
    /\ last.limitRaised
    /\ last.status = 500
    /\ ~BadQuery(last.q)
    /\ NothingDone(last)

(***************************************************************************)
(* Properties of query expansion (SpecExpand)                              *)
(***************************************************************************)
Expanded == last.source = "expand_query_intelligent"

\* The value is a list of strings.
ListOfStrings(v) == v.type = "list" /\ \A i \in 1..Len(v.items) : v.items[i].type = "str"

\* C25: expand returns a list of at most 4 strings, and the one-element list
\* of the query when the LLM call fails or its output is not a JSON array of
\* strings.
C25_ExpandAtMostFour ==
    Expanded =>
        /\ ListOfStrings(last.returned)
        /\ Len(last.returned.items) <= 4
        /\ (last.llm.kind # "json" \/ ~ListOfStrings(last.llm.value)) =>
              last.returned = ListOf(<<last.q>>)

\* The LLM answered with a JSON object: expand returned the object.
C25_Witness ==
    /\ Expanded
    /\ last.llm.kind = "json"
    /\ last.llm.value.type = "dict"
    /\ last.returned = last.llm.value

(***************************************************************************)
(* Properties of normalization (SpecNormalize)                             *)
(***************************************************************************)
NormalizeStep == last'.source = "normalize_query_intelligent"

\* C26: in one execution context, a call of normalize for a query whose
\* lowercased form has a term in the table returns that term without
\* calling the LLM and leaves the table as it is; a call whose LLM call
\* succeeds puts its result under the lowercased query and nowhere else; a
\* call whose LLM call fails returns the query as given and leaves the table
\* as it is.
C26_NormalizeMemoized ==
    [][NormalizeStep =>
        LET k == Lower(Strip(last'.q))
        IN /\ k \in DOMAIN normalization_cache =>
                /\ last'.returned = normalization_cache[k]
                /\ ~last'.llm.called
                /\ normalization_cache' = normalization_cache
           /\ (k \notin DOMAIN normalization_cache /\ last'.llm.kind = "text") =>
                /\ last'.llm.called
                /\ normalization_cache' = Put(normalization_cache, k, last'.returned)
           /\ (k \notin DOMAIN normalization_cache /\ last'.llm.kind # "text") =>
                /\ last'.returned = last'.q
                /\ normalization_cache' = normalization_cache]_vars

\* normalize(" n") was answered from the table with the term an earlier call
\* for the same lowercased query stored, where the LLM answers differently
\* from call to call.
C26_Witness ==
    /\ last.source = "normalize_query_intelligent"
    /\ last.q = <<" ", "n">>
    /\ ~last.llm.called
    /\ "llm" \in env.faults
    /\ last.returned = last.stood
    /\ last.returned = <<"a">>

(***************************************************************************)
(* Properties of the re-search after synchronous discovery (Spec)          *)
(***************************************************************************)
\* C27: a request runs try_sync_discovery at most once, after an empty first
\* vector search; vector_search runs a second time exactly when the
\* discovery inserted a record, and never a third time; when the second
\* search is empty too the answer is the 404 of a query that was not found,
\* without a reason, and add_to_discovery_queue was called once.
C27_ReSearchOnce ==
    /\ last.expands \in 0..2
    /\ last.disc # NoEntry => Len(last.disc.inserted) <= 1
    /\ last.expands = 2 <=> (last.disc # NoEntry /\ last.disc.success)
    /\ (last.disc # NoEntry /\ last.disc.success) => Len(last.disc.inserted) = 1
    /\ (last.disc # NoEntry /\ last.disc.success /\ last.hits = 0) =>
          /\ last.status = 404
          /\ last.reason = "none"
          /\ last.enqueues = 1
          /\ last.queued => PendingFor(Strip(last.q))

\* Discovery inserted a record, the second search found nothing, and the
\* request was answered 404 with its query queued.
C27_Witness ==
    /\ last.disc # NoEntry
    /\ last.disc.success
    /\ last.expands = 2
    /\ last.hits = 0
    /\ last.status = 404
    /\ last.queued

(***************************************************************************)
(* Admission and grading of the workers against try_sync_discovery         *)
(* (SpecAdmission)                                                         *)
(***************************************************************************)
\* What try_sync_discovery does with a term whose study count is c: whether
\* it inserts, and the grade it stores.
SyncVerdict(name, c) ==
    [inserts |-> Admits(c), grade |-> IF Admits(c) THEN Grade(c) ELSE "none"]

\* The rows of the RDS catalog the worker inserted: in SpecAdmission the
\* table starts empty.
RWInserted == 1..Len(rcatalog)

\* C28: every record a worker inserted has a study count with which
\* try_sync_discovery inserts too (c >= MIN_STUDIES), and carries the grade
\* try_sync_discovery stores for that count.
C28_WorkerAdmitsAndGradesAsSync ==
    /\ \A i \in 1..Len(catalog) :
         catalog[i].by = "worker" =>
            LET v == SyncVerdict(catalog[i].name, catalog[i].study_count)
            IN v.inserts /\ catalog[i].evidence_grade = v.grade
    /\ \A i \in RWInserted :
         LET v == SyncVerdict(rcatalog[i].name, rcatalog[i].studyCount)
         IN v.inserts /\ rcatalog[i].evidenceGrade = v.grade

\* The RDS worker has completed an item with a record of one study, which
\* try_sync_discovery refuses, or with a record of 100 studies graded "C"
\* where try_sync_discovery stores "A".
C28_Witness ==
    /\ \E k \in DOMAIN rqueue : rqueue[k].status = "completed"
    /\ \E i \in RWInserted :
         \/ rcatalog[i].studyCount = 1 /\ ~SyncVerdict(rcatalog[i].name, 1).inserts
         \/ /\ rcatalog[i].studyCount = 100
            /\ rcatalog[i].evidenceGrade = "C"
            /\ SyncVerdict(rcatalog[i].name, 100).grade = "A"

(***************************************************************************)
(* Overlapping discoveries of one term (SpecRace)                          *)
(***************************************************************************)
\* The call p of try_sync_discovery ends with success.
SyncAdds(p) ==
    /\ sync[p].pc = "read"
    /\ sync'[p].pc # "read"
    /\ IF sync'[p].pc = "returned"
       THEN sync'[p].result.success
       ELSE last'.disc # NoEntry /\ last'.disc.success

Named(cat, name) == {i \in 1..Len(cat) : cat[i].name = name}

\* C29: no insert looks for a record of the same name: the table.add of a
\* synchronous discovery and that of the worker append their record also
\* when the catalog already holds one or more records of that name.
C29_InsertIgnoresExisting ==
    [][/\ \A p \in SyncCalls :
            SyncAdds(p) =>
               /\ Len(catalog') = Len(catalog) + 1
               /\ SubSeq(catalog', 1, Len(catalog)) = catalog
               /\ catalog'[Len(catalog')].name = sync[p].query
               /\ Named(catalog', sync[p].query) = Named(catalog, sync[p].query) \cup {Len(catalog')}
       /\ LWInserted =>
               /\ Len(catalog') = Len(catalog) + 1
               /\ SubSeq(catalog', 1, Len(catalog)) = catalog
               /\ catalog'[Len(catalog')].name = lw.query
               /\ Named(catalog', lw.query) = Named(catalog, lw.query) \cup {Len(catalog')}]_vars

\* Two synchronous discoveries of one term have both inserted, each having
\* read the table before the other added: the catalog holds two discovered
\* records of the same name, under the same id.
C29_Witness ==
    \E i, j \in 1..Len(catalog) :
        /\ i < j
        /\ catalog[i].name = catalog[j].name
        /\ catalog[i].id = catalog[j].id
        /\ catalog[i].by \in {"sync", "worker"}
        /\ catalog[j].by \in {"sync", "worker"}

(***************************************************************************)
(* Search counters of the catalog records (SpecTiers)                      *)
(***************************************************************************)
\* The search counter of the record with the given id, 0 when the catalog
\* has no such record.
CountOf(cat, id) ==
    LET hits == {i \in 1..Len(cat) : cat[i].id = id}
    IN IF hits = {} THEN 0 ELSE cat[CHOOSE i \in hits : TRUE].search_count

\* The catalog the deployed search handler resolves in.
Resolved(cat, rcat) == IF env.deployed = "rds" THEN rcat ELSE cat

\* C30: a request answered 200, from a cache or from the index, leaves the
\* search counter of the record it resolved to one higher than it was; and
\* no step removes a record from either catalog.
C30_ResolutionCounted ==
    [][/\ (last'.status = 200 /\ last'.supplement # NoEntry) =>
            CountOf(Resolved(catalog', rcatalog'), last'.supplement.id)
               = CountOf(Resolved(catalog, rcatalog), last'.supplement.id) + 1
       /\ Len(catalog') >= Len(catalog)
       /\ \A i \in 1..Len(catalog) : catalog'[i].id = catalog[i].id
       /\ Len(rcatalog') >= Len(rcatalog)
       /\ \A i \in 1..Len(rcatalog) : rcatalog'[i].id = rcatalog[i].id]_vars

\* The multi-tier handler has answered 200 from the DynamoDB cache for an
\* entry served before, and the record's search counter stands at the count
\* it was inserted with plus the one of the search that found it.
C30_Witness ==
    /\ env.deployed = "rds"
    /\ last.status = 200
    /\ last.cacheHit
    /\ last.source = "dynamodb"
    /\ last.key \in DOMAIN cache
    /\ cache[last.key].searchCount >= 2
    /\ CountOf(rcatalog, last.supplement.id) = 2

(***************************************************************************)
(* A failed evidence oracle in the workers' validation (SpecAdmission)     *)
(***************************************************************************)
\* C31: a failed oracle call is validated as study count 0 and not valid, and
\* no worker inserts a record for such an item: with oracle counts of 1 and
\* more, no record a worker inserted carries a study count of 0.
C31_OracleFailureInsertsNothing ==
    /\ \A oc \in OracleOutcomes :
         oc.kind # "count" =>
            /\ ValidatePubmed(oc).study_count = 0
            /\ ~ValidatePubmed(oc).is_valid
            /\ QueryPubmed(oc).study_count = 0
    /\ \A i \in RWInserted : rcatalog[i].studyCount # 0
    /\ \A i \in 1..Len(catalog) : catalog[i].by = "worker" => catalog[i].study_count # 0

\* The RDS worker has completed an item whose oracle call failed, with a
\* record of 0 studies in the catalog and the item marked low-evidence.
C31_Witness ==
    /\ "oracle" \in env.faults
    /\ 0 \notin env.counts
    /\ \E i \in RWInserted :
         /\ rcatalog[i].studyCount = 0
         /\ \E k \in DOMAIN rqueue :
              /\ rqueue[k].query = rcatalog[i].name
              /\ rqueue[k].status = "completed"
              /\ rqueue[k].pubmedStudyCount = 0
              /\ rqueue[k].validationStatus = "low-evidence"

(***************************************************************************)
(* Two overlapping cache writers of one key (SpecWriters)                  *)
(***************************************************************************)
\* Both invocations have missed the cache, searched and called store_cache
\* for the same query.
BothStored ==
    /\ \A p \in SyncCalls : inflight[p].pc = "done" /\ inflight[p].handed # NoEntry
    /\ \A p, q \in SyncCalls : inflight[p].raw = inflight[q].raw

\* The payload a request for raw calls store_cache with when it runs alone
\* on the catalog as it stands, its search using the expansion exp (NoEntry:
\* none).
AlonePayload(raw, exp) ==
    LET res == VectorSearch(LimitOf(NoParam, NoParam).value, catalog, exp, 0).results
    IN IF res = <<>> THEN NoEntry ELSE SupplementData(res[1])

\* The payloads a request for raw running alone can leave under its key:
\* the one it calls store_cache with when put_item goes through, none
\* (NoEntry) when put_item raises.
AloneLeaves(raw, exp) ==
    LET data == AlonePayload(raw, exp)
    IN IF data = NoEntry
       THEN {NoEntry}
       ELSE {IF ok THEN data ELSE NoEntry : ok \in StoreOutcomes(data, Strip(raw))}

\* The payload held under key (NoEntry: no entry).
PayloadUnder(key) == IF key \in DOMAIN cache THEN cache[key].supplementData ELSE NoEntry

TierOrder == <<"dynamodb", "redis", "exact", "vector">>

\* The latest response is one of the multi-tier handler to an accepted q.
TierAnswered == env.deployed = "rds" /\ last.status \in {200, 404, 500}

\* C33: the multi-tier handler consults DynamoDB, Redis, the exact-name
\* match and the vector search in this order and answers at the first that
\* hits, consulting none after it; a Redis hit calls cache_supplement, which
\* leaves the supplement in the DynamoDB table when its writes go through; a
\* DynamoDB hit writes nothing; and the query is enqueued and answered 404
\* exactly when all four were consulted and missed.
C33_TiersInOrder ==
    TierAnswered =>
        /\ last.tiers = SubSeq(TierOrder, 1, Len(last.tiers))
        /\ Len(last.tiers) >= 1
        /\ last.status = 200 =>
              /\ last.source = "dynamodb" <=> Len(last.tiers) = 1
              /\ last.source = "redis" <=> Len(last.tiers) = 2
              /\ last.source = "postgres-exact" <=> Len(last.tiers) = 3
              /\ last.source = "postgres" <=> Len(last.tiers) = 4
              /\ last.cacheHit <=> Len(last.tiers) <= 2
              /\ last.enqueues = 0
        /\ (last.status = 200 /\ last.source = "dynamodb") => ~last.stored /\ ~last.writeFault
        /\ (last.status = 200 /\ last.source = "redis") =>
              /\ last.stored \/ last.writeFault
              /\ last.stored =>
                    /\ last.key \in DOMAIN cache
                    /\ cache[last.key].supplementData = last.supplement
        /\ last.status = 404 <=> last.enqueues = 1
        /\ last.status = 404 => last.tiers = TierOrder /\ last.source = "discovery"

\* A Redis hit after the DynamoDB entry was gone: two tiers consulted, the
\* supplement written back to the DynamoDB table.
C33_Witness ==
    /\ TierAnswered
    /\ last.status = 200
    /\ last.source = "redis"
    /\ last.tiers = <<"dynamodb", "redis">>
    /\ last.replaced = NoEntry
    /\ last.stored
    /\ cache[last.key].supplementData = last.supplement

(***************************************************************************)
(* The records of one batch of the worker (SpecBatch)                      *)
(***************************************************************************)
\* C34: an invocation of the worker processes every pending record of its
\* batch and returns its normal result, whatever failed while it processed
\* one of them.
C34_RecordsIndependent ==
    last.worker # NoEntry =>
        /\ ~last.worker.raised
        /\ last.status = 200
        /\ Len(last.worker.results) >= Cardinality(last.worker.records)

\* The update_item that marks the first record's item failed raised: the
\* invocation ended with the exception, no result, and the item of a later
\* record of the batch is still pending, never processed.
C34_Witness ==
    /\ last.worker # NoEntry
    /\ last.worker.raised
    /\ last.status # 200
    /\ last.worker.results = <<>>
    /\ Cardinality(last.worker.records) = 2
    /\ \A k \in last.worker.records : rqueue[k].status = "pending"
    /\ rstream = <<>>

(***************************************************************************)
(* Ids of the catalog records under overlapping inserts (SpecRace)         *)
(***************************************************************************)
\* C35: no two records of the catalog share an id.
C35_IdsUnique ==
    \A i, j \in 1..Len(catalog) : i # j => catalog[i].id # catalog[j].id

\* Two calls of try_sync_discovery have both read the empty table, both
\* computed next_id = 1 and both added their record; both calls are over.
C35_Witness ==
    /\ \A p \in SyncCalls : sync[p].pc = "idle"
    /\ Len(catalog) = 2
    /\ catalog[1].id = 1 /\ catalog[2].id = 1
    /\ catalog[1].by = "sync" /\ catalog[2].by = "sync"

(***************************************************************************)
(* Completed items and their records (SpecWorkers)                         *)
(***************************************************************************)
\* C36: every queue item whose status is completed has a record in its
\* pipeline's catalog that the worker inserted under the item's query (in
\* the RDS pipeline, whose items are keyed by the lowercased query, under
\* the item's normalized query).
C36_CompletedHasRecord ==
    /\ \A k \in DOMAIN lqueue :
         lqueue[k].status = "completed" =>
            \E i \in 1..Len(catalog) :
                catalog[i].by = "worker" /\ catalog[i].name = lqueue[k].query
    /\ \A k \in DOMAIN rqueue :
         rqueue[k].status = "completed" =>
            \E i \in 1..Len(rcatalog) :
                rcatalog[i].normalized_name = rqueue[k].normalizedQuery

\* The RDS worker has marked an item completed whose validation found no
\* study, and the catalog has no record of its query.
C36_Witness ==
    \E k \in DOMAIN rqueue :
        /\ rqueue[k].status = "completed"
        /\ rqueue[k].validationStatus = "invalid"
        /\ rqueue[k].pubmedStudyCount = 0
        /\ \A i \in 1..Len(rcatalog) : rcatalog[i].normalized_name # rqueue[k].normalizedQuery

(***************************************************************************)
(* The retry counter of a queue item (SpecWorkers)                         *)
(***************************************************************************)
\* The retry counter of the item under key k of the RDS queue q (an item
\* without the attribute counts 0, as the worker reads it).
RetryOf(q, k) == IF k \in DOMAIN q THEN q[k].retryCount ELSE 0

\* C37: no step lowers the retry counter of a queue item, and every step in
\* which the worker marks an item failed raises its counter by one, so the
\* counter is the number of failed attempts for the item's query.
C37_RetryCounts ==
    [][\A k \in DOMAIN rqueue :
          /\ RetryOf(rqueue', k) >= RetryOf(rqueue, k)
          /\ (RWProcessed /\ rqueue'[k] # rqueue[k] /\ rqueue'[k].status = "failed") =>
                RetryOf(rqueue', k) = RetryOf(rqueue, k) + 1]_vars

\* An item failed once, with retry counter 1, and its query was enqueued
\* again: the stream holds the failed write followed by the new pending
\* item, whose counter is back to 0.
C37_Witness ==
    /\ Len(rstream) = 2
    /\ rstream[1].key = rstream[2].key
    /\ rstream[1].image.status = "failed"
    /\ rstream[1].image.retryCount = 1
    /\ rstream[2].image.status = "pending"
    /\ rqueue[rstream[2].key] = rstream[2].image
    /\ rqueue[rstream[2].key].retryCount = 0

(***************************************************************************)
(* The answer after a match and the cache population (SpecPopulate)        *)
(***************************************************************************)
\* C38: a request whose vector search returned a match above the threshold
\* is answered 200 with that match, whether or not the embedding of the
\* query for the cache entry and the cache write succeed.
C38_MatchAnswered ==
    last.matched =>
        /\ last.status = 200
        /\ last.supplement # NoEntry
        /\ last.hits >= 1

\* The vector search returned a match and the embedding of the query for the
\* cache entry raised: the answer is 500, without the supplement, and
\* nothing was written to the cache.
C38_Witness ==
    /\ last.matched
    /\ last.hits >= 1
    /\ last.status = 500
    /\ last.supplement = NoEntry
    /\ ~last.stored /\ ~last.writeFault
    /\ last.key \notin DOMAIN cache

(***************************************************************************)
(* retry_with_backoff of lambda_function_eager.py (SpecRetry)              *)
(***************************************************************************)
\* The largest number of retries a call is made with (the module uses 3, the
\* default, and 2).
MaxRetries == 3

\* backoff_in_seconds in half seconds: 0.5 s (check_cache, store_cache), 1 s
\* (the default) and 2 s.
Backoffs == {1, 2, 4}

\* What a wrapped function can return.
RetryValues == {"item", "none"}

\* The wait after the failed attempt made with loop counter x, in half
\* seconds: backoff_in_seconds * (2 ** x).
SleepTimeLinear(b, x) == b * (x + 1)

SleepTime(b, x) == b * (2 ^ x)

\* The outcomes of one attempt of the wrapped function: whether it returned,
\* its value, and the cache table after it.  A function of no particular
\* kind returns a value or raises, and writes nothing.  check_cache (lines
\* 145-171) does get_item and returns the item's supplementData, or None on
\* a miss or a store error.  store_cache (lines 174-195) does put_item of the
\* entry and returns None, whether the put went through or not.  Both catch
\* every exception of their table call themselves.
AttemptOutcomes(func) ==
    IF func = "func"
    THEN {[ok |-> TRUE, value |-> v, cache |-> cache] : v \in RetryValues}
             \cup {[ok |-> FALSE, value |-> NoEntry, cache |-> cache]}
    ELSE IF func = "check_cache"
    THEN {[ok |-> TRUE, value |-> CheckCache(cache, retry.args, readOk), cache |-> cache] :
            readOk \in Outcomes("cacheRead")}
    ELSE {[ok |-> TRUE, value |-> NoEntry,
           cache |-> StoreCache(cache, retry.args[1], retry.args[2], retry.args[3], putOk)] :
            putOk \in StoreOutcomes(retry.args[2], retry.args[3])}

\* wrapper(*args, **kwargs) is entered: x = 0.
RetryCall(func, n, b, args) ==
    /\ retry.pc \in {"idle", "done"}
    /\ retry' = [RetryIdle EXCEPT !.pc = "try", !.func = func, !.args = args,
                                  !.retries = n, !.backoff = b]
    /\ UNCHANGED <<env, sync, inflight, normalization_cache, tierVars, cache, catalog,
                   pubmedCache, lqueue, lstream, lw, last, rdsVars, vs>>

\* The calls made: the decorated functions of the module, with the
\* arguments of their decorators, and a function of no particular kind under
\* every decorator within the bounds.
RetryCalls ==
    [func : {"func"}, retries : 0..MaxRetries, backoff : Backoffs, args : {NoEntry}]
        \cup [func : {"check_cache"}, retries : {3}, backoff : {1},
              args : {HandlerKey(t) : t \in CacheTexts}]
        \cup [func : {"store_cache"}, retries : {2}, backoff : {1}, args : StoreInputs]

\* One pass of the loop body: func is called, with what it does to the cache
\* table; its return ends the loop with the value; an exception with
\* x = retries is raised again; any other exception computes the wait.
RetryAttempt ==
    /\ retry.pc = "try"
    /\ \E out \in AttemptOutcomes(retry.func) :
        LET n == retry.calls + 1
        IN  /\ cache' = out.cache
            /\ IF out.ok
               THEN retry' = [retry EXCEPT !.calls = n, !.pc = "done",
                                  !.outcome = [returned |-> TRUE, value |-> out.value,
                                               attempt |-> n]]
               ELSE IF retry.x = retry.retries
               THEN retry' = [retry EXCEPT !.calls = n, !.raised = Append(@, n), !.pc = "done",
                                  !.outcome = [returned |-> FALSE, value |-> NoEntry,
                                               attempt |-> n]]
               ELSE retry' = [retry EXCEPT !.calls = n, !.raised = Append(@, n),
                                           !.pc = "sleep"]
    /\ UNCHANGED <<env, sync, inflight, normalization_cache, tierVars, catalog,
                   pubmedCache, lqueue, lstream, lw, last, rdsVars, vs>>

\* time.sleep(sleep_time) returns and x is incremented.
RetrySleep ==
    /\ retry.pc = "sleep"
    /\ retry' = [retry EXCEPT !.slept = Append(@, SleepTime(retry.backoff, retry.x)),
                              !.x = @ + 1, !.pc = "try"]
    /\ UNCHANGED <<env, sync, inflight, normalization_cache, tierVars, cache, catalog,
                   pubmedCache, lqueue, lstream, lw, last, rdsVars, vs>>

\* add_to_discovery_queue(query) of the same module (lines 259-281), which
\* stands under no decorator: one put_item of the pending item, a store
\* error swallowed.
EagerEnqueue(query) ==
    /\ Len(lstream) < MaxStream
    /\ \E putOk \in Outcomes("queuePut") :
         LET q2 == AddToDiscoveryQueue(LQ, query, putOk)
         IN /\ lqueue' = q2.queue
            /\ lstream' = q2.stream
    /\ UNCHANGED <<env, sync, inflight, retry, normalization_cache, tierVars, cache, catalog,
                   pubmedCache, lw, last, rdsVars, vs>>

EagerQueries == {<<"z">>}

InitRetry ==
    /\ Quiet
    /\ env \in [dynamodb : {"boto3"}, embedder : {"body"}, deployed : {"lancedb"},
                faults : {{"cacheRead", "cacheWrite", "queuePut"}}, counts : {{0}}]

NextRetry ==
    \/ \E c \in RetryCalls : RetryCall(c.func, c.retries, c.backoff, c.args)
    \/ RetryAttempt
    \/ RetrySleep
    \/ \E query \in EagerQueries : EagerEnqueue(query)

\* A call of the wrapped function returns or raises, and time.sleep returns.
SpecRetry == InitRetry /\ [][NextRetry]_vars /\ WF_vars(RetryAttempt) /\ WF_vars(RetrySleep)

\* The attempts made so far all raised, except the last one of a call that
\* returned.
RetryHistory ==
    /\ retry.calls <= retry.retries + 1
    /\ retry.x <= retry.retries
    /\ Len(retry.slept) = retry.x
    /\ \A k \in 1..Len(retry.slept) : retry.slept[k] = retry.backoff * (2 ^ (k - 1))
    /\ retry.pc = "sleep" => retry.raised = [k \in 1..retry.calls |-> k] /\ retry.calls = retry.x + 1
    /\ retry.pc = "try" => retry.raised = [k \in 1..retry.calls |-> k] /\ retry.calls = retry.x
    /\ (retry.pc = "done" /\ retry.outcome.returned) =>
        /\ retry.outcome.attempt = retry.calls
        /\ retry.raised = [k \in 1..(retry.calls - 1) |-> k]
        /\ retry.func = "func" => retry.outcome.value \in RetryValues
        /\ retry.func = "check_cache" =>
                retry.outcome.value \in {NoEntry, CheckCache(cache, retry.args, TRUE)}
        /\ retry.func = "store_cache" => retry.outcome.value = NoEntry
    /\ retry.func \in {"check_cache", "store_cache"} => retry.calls <= 1
    /\ (retry.pc = "done" /\ ~retry.outcome.returned) =>
        /\ retry.calls = retry.retries + 1
        /\ retry.raised = [k \in 1..(retry.retries + 1) |-> k]
        /\ retry.outcome.attempt = retry.retries + 1

\* C39: a call through retry_with_backoff(retries = n, backoff_in_seconds = b)
\* invokes the function at most n + 1 times; the first attempt that returns
\* ends the loop with its value; the wait after the k-th failed attempt is
\* b * 2^(k-1); when all n + 1 attempts raise, the exception of the last one
\* is raised again; and every call ends.
C39_RetryBounded ==
    /\ []RetryHistory
    /\ (retry.pc = "try") ~> (retry.pc = "done")

\* A call with retries = 3 and backoff 0.5 s whose four attempts all raised:
\* it waited 0.5, 1 and 2 seconds and raised the fourth exception.
C39_Witness ==
    /\ retry.pc = "done"
    /\ retry.func = "func" /\ retry.retries = 3 /\ retry.backoff = 1
    /\ retry.calls = 4
    /\ retry.slept = <<1, 2, 4>>
    /\ ~retry.outcome.returned /\ retry.outcome.attempt = 4

====
